---- MODULE Spec2Model ----
(***************************************************************************)
(* Model of scripts/fetch_historical_returns.py: the file cache under      *)
(* CACHE_DIR, the source adapters (Shiller, French, Damodaran, Yahoo,      *)
(* FRED) and the fetch_*_best fallback chains.                             *)
(*                                                                         *)
(* A payload is abstracted to where it came from and which years it        *)
(* covers: [origin, first, last]. A series is a set of such runs of        *)
(* consecutive years. The numeric values of the returns play no part in    *)
(* the cache and fallback logic modelled here.                             *)
(*                                                                         *)
(* The program is single threaded; a top-level call runs to completion     *)
(* before the next one starts. A fallback chain takes one step per         *)
(* candidate block; the clock advances only between top-level calls.       *)
(* Several runs of the script may be started at once and share CACHE_DIR;  *)
(* SpecConc interleaves the file operations of such runs.                  *)
(***************************************************************************)
EXTENDS Integers, Sequences, FiniteSets, TLC

VARIABLES
    cfg,                 \* HAS_OPENPYXL, HAS_YFINANCE, HAS_FRED, FRED_API_KEY in os.environ
    CACHE_MAX_AGE_DAYS,  \* the module global of line 93, rebound by main
    now,                 \* datetime.now().timestamp(), in seconds
    fs,                  \* CACHE_DIR: [exists, files], files: path -> [data, mtime]
    pc,                  \* "idle", "chain", "returned" or "raised"
    call,                \* the top-level call in progress or last finished
    idx,                 \* position of the next candidate block of the chain
    errors,              \* the local list `errors` of a fetch_*_best call
    ret,                 \* what the last top-level call returned or raised
    log,                 \* events of the current top-level call, in order
    puts,                \* history: request descriptor -> last put since the last clear
    cleared,             \* history: "no", "cleared" (removed, not written since) or "rewritten"
    calls,               \* number of top-level calls made
    ticks,               \* number of clock advances made
    run,                 \* main's locals: position in fetchers, all_stats, inflation_stats
    calc,                \* a statistics or export computation: its input and its result
    procs                \* runs of the script sharing CACHE_DIR: where each is in its file operation

vars == <<cfg, CACHE_MAX_AGE_DAYS, now, fs, pc, call, idx, errors, ret, log,
          puts, cleared, calls, ticks, run, calc, procs>>

----------------------------------------------------------------------------
\* Bounds of the model.

MaxCalls == 2
MaxCacheCalls == 3
MaxTicks == 2
MaxPayload == 2
BaseYear == 2026
StartDay == 340

\* Program constants.

SecondsPerDay == 86400
DefaultMaxAgeDays == 30
ArgparseCacheDays == 7

SHILLER_DATA_URL == "http://www.econ.yale.edu/~shiller/data/ie_data.xls"
FRENCH_BASE_URL == "https://mba.tuck.dartmouth.edu/pages/faculty/ken.french/ftp/"
DAMODARAN_URL == "https://pages.stern.nyu.edu/~adamodar/pc/datasets/histretSP.xls"

\* url = f"{FRENCH_BASE_URL}{filename}"
french_url(filename) ==
    CASE filename = "F-F_Research_Data_Factors_CSV.zip" ->
           "https://mba.tuck.dartmouth.edu/pages/faculty/ken.french/ftp/F-F_Research_Data_Factors_CSV.zip"
      [] filename = "Developed_ex_US_3_Factors_CSV.zip" ->
           "https://mba.tuck.dartmouth.edu/pages/faculty/ken.french/ftp/Developed_ex_US_3_Factors_CSV.zip"
      [] filename = "Emerging_5_Factors_CSV.zip" ->
           "https://mba.tuck.dartmouth.edu/pages/faculty/ken.french/ftp/Emerging_5_Factors_CSV.zip"

\* hashlib.md5(url.encode()).hexdigest()[:12], tabulated for the program's URLs.
md5_12(url) ==
    CASE url = SHILLER_DATA_URL -> "f76ea3d0c01d"
      [] url = french_url("F-F_Research_Data_Factors_CSV.zip") -> "9169ad1ff93c"
      [] url = french_url("Developed_ex_US_3_Factors_CSV.zip") -> "6113ddcb777e"
      [] url = french_url("Emerging_5_Factors_CSV.zip") -> "2b21e1c28c95"
      [] url = DAMODARAN_URL -> "8e87db2cfab8"

Max(a, b) == IF a >= b THEN a ELSE b

\* datetime.now().year, for a clock that counts seconds from 1 January of
\* BaseYear (years of 365 days).
YearOf(t) == BaseYear + (t \div (365 * SecondsPerDay))

\* The clock advances by half of the default maximum age, so that entries
\* age 0, 15, 30 (the boundary), 45 ... days.
TickStep == (DefaultMaxAgeDays * SecondsPerDay) \div 2

NoData == [origin |-> "None", first |-> 0, last |-> 0]

----------------------------------------------------------------------------
\* Caching (lines 92-139).

\* Faulty variant of get_cache_path: the suffix is left out of the file name.
get_cache_path_nosuffix(url, suffix) == <<md5_12(url), ".bin">>

\* return CACHE_DIR / f"{url_hash}{suffix}"
get_cache_path(url, suffix) == <<md5_12(url), suffix>>

\* Faulty variant of is_cache_valid: an entry exactly max_age_days old is valid.
is_cache_valid_inclusive(c, cache_path, max_age_days, t) ==
    /\ c.exists
    /\ cache_path \in DOMAIN c.files
    /\ (t - c.files[cache_path].mtime) <= max_age_days * SecondsPerDay

\* if not cache_path.exists(): return False
\* age = now - st_mtime; return age < max_age_days * 86400
is_cache_valid(c, cache_path, max_age_days, t) ==
    /\ c.exists
    /\ cache_path \in DOMAIN c.files
    /\ (t - c.files[cache_path].mtime) < max_age_days * SecondsPerDay

\* CACHE_DIR.mkdir(exist_ok=True)
mkdir(c) == [c EXCEPT !.exists = TRUE]

\* Path.write_bytes / open(path, 'wb'): fails when the directory is missing,
\* otherwise replaces the file and stamps it with the current time.
write_file(c, path, data, t) ==
    IF ~c.exists
    THEN [ok |-> FALSE, fs |-> c]
    ELSE [ok |-> TRUE,
          fs |-> [c EXCEPT !.files =
                    [p \in (DOMAIN c.files) \cup {path} |->
                        IF p = path THEN [data |-> data, mtime |-> t]
                        ELSE c.files[p]]]]

\* def save_to_cache(data, url, suffix)
save_to_cache(c, data, url, suffix, t) ==
    write_file(mkdir(c), get_cache_path(url, suffix), data, t)

\* def load_from_cache(url, suffix): the default max_age_days of is_cache_valid
\* was bound when the function was defined, to the 30 of line 93.
load_from_cache(c, url, suffix, t) ==
    LET cache_path == get_cache_path(url, suffix) IN
    IF is_cache_valid(c, cache_path, DefaultMaxAgeDays, t)
    THEN [hit |-> TRUE, data |-> c.files[cache_path].data]
    ELSE [hit |-> FALSE, data |-> NoData]

\* Events of the log.
\*   lookup: a cache validity decision; flag = its answer, age = -1 if no file.
\*   net:    a network request; flag = whether it delivered.
\*   save:   a cache write; flag = whether it succeeded.
Age(c, path, t) ==
    IF c.exists /\ path \in DOMAIN c.files THEN t - c.files[path].mtime ELSE -1

Ev(ev, res, flag, age) == [ev |-> ev, res |-> res, flag |-> flag, age |-> age]

\* What a server sends for a URL at time t: its history up to the current,
\* not yet complete, year.
RemoteFirstYear(url) ==
    CASE url = SHILLER_DATA_URL -> 1871
      [] url = french_url("F-F_Research_Data_Factors_CSV.zip") -> 1926
      [] url = french_url("Developed_ex_US_3_Factors_CSV.zip") -> 1990
      [] url = french_url("Emerging_5_Factors_CSV.zip") -> 1990
      [] url = DAMODARAN_URL -> 1928

urlopen(url, t) == [origin |-> url, first |-> RemoteFirstYear(url), last |-> YearOf(t)]

\* Faulty variant of fetch_url_cached: the entry is created before the
\* download, so a failed download leaves an empty entry behind.
fetch_url_cached_eager(c, url, suffix, t, net) ==
    LET res    == <<url, suffix>>
        path   == get_cache_path(url, suffix)
        cached == load_from_cache(c, url, suffix, t)
        look   == Ev("lookup", res, cached.hit, Age(c, path, t))
        early  == save_to_cache(c, NoData, url, suffix, t)
    IN
    IF cached.hit
    THEN [ok |-> TRUE, data |-> cached.data, fs |-> c, events |-> <<look>>,
          err |-> "none"]
    ELSE IF ~net
    THEN [ok |-> FALSE, data |-> NoData, fs |-> early.fs,
          events |-> <<look, Ev("net", res, FALSE, -1)>>, err |-> "URLError"]
    ELSE LET data == urlopen(url, t)
             w    == save_to_cache(early.fs, data, url, suffix, t)
         IN [ok |-> w.ok, data |-> data, fs |-> w.fs,
             events |-> <<look, Ev("net", res, TRUE, -1), Ev("save", res, w.ok, -1)>>,
             err |-> IF w.ok THEN "none" ELSE "FileNotFoundError"]

\* def fetch_url_cached(url, suffix); net = whether urlopen delivers.
fetch_url_cached(c, url, suffix, t, net) ==
    LET res    == <<url, suffix>>
        path   == get_cache_path(url, suffix)
        cached == load_from_cache(c, url, suffix, t)
        look   == Ev("lookup", res, cached.hit, Age(c, path, t))
    IN
    IF cached.hit
    THEN [ok |-> TRUE, data |-> cached.data, fs |-> c, events |-> <<look>>,
          err |-> "none"]
    ELSE IF ~net
    THEN [ok |-> FALSE, data |-> NoData, fs |-> c,
          events |-> <<look, Ev("net", res, FALSE, -1)>>, err |-> "URLError"]
    ELSE LET data == urlopen(url, t)
             w    == save_to_cache(c, data, url, suffix, t)
         IN [ok |-> w.ok, data |-> data, fs |-> w.fs,
             events |-> <<look, Ev("net", res, TRUE, -1), Ev("save", res, w.ok, -1)>>,
             err |-> IF w.ok THEN "none" ELSE "FileNotFoundError"]

\* Faulty variant of rmtree: the entries survive the directory.
rmtree_keep(c) == [c EXCEPT !.exists = FALSE]

\* shutil.rmtree(CACHE_DIR)
rmtree(c) == [exists |-> FALSE, files |-> <<>>]

----------------------------------------------------------------------------
\* History of puts, kept beside the program state: for every save event of a
\* call, the bytes and time of the put, by request descriptor.

Saved(events) == {events[i].res : i \in {j \in DOMAIN events :
                                          events[j].ev = "save" /\ events[j].flag}}

RecordPuts(old, events, data, t) ==
    [r \in (DOMAIN old) \cup Saved(events) |->
        IF r \in Saved(events) THEN [data |-> data, at |-> t] ELSE old[r]]

\* "cleared" becomes "rewritten" at the first successful write after a clear.
Rewritten(old, events) ==
    IF Saved(events) = {} THEN old
    ELSE IF old = "cleared" THEN "rewritten" ELSE old

----------------------------------------------------------------------------
\* Initial state: a fresh checkout (no cache directory), any installation.

\* Installations: everything present, each capability missing alone, and
\* nothing present. Every chain meets every combination of its own gates.
Config(openpyxl, yfinance, fred, key) ==
    [HAS_OPENPYXL |-> openpyxl, HAS_YFINANCE |-> yfinance, HAS_FRED |-> fred,
     FRED_API_KEY |-> key]

Configs == { Config(TRUE, TRUE, TRUE, TRUE),
             Config(FALSE, TRUE, TRUE, TRUE),
             Config(TRUE, FALSE, TRUE, TRUE),
             Config(TRUE, TRUE, FALSE, TRUE),
             Config(TRUE, TRUE, TRUE, FALSE),
             Config(FALSE, FALSE, FALSE, FALSE) }

NoCall == [fn |-> "none"]
NoRet == [kind |-> "none"]
NoRun == [at |-> "none"]
NoCalc == [op |-> "none"]

\* The runs of the script that share CACHE_DIR: two that store an entry and
\* one that loads one.
Writers == {"writer1", "writer2"}
Readers == {"reader"}
NoProcs == [p \in Writers \cup Readers |-> [pc |-> "idle"]]

Init ==
    /\ cfg \in Configs
    /\ CACHE_MAX_AGE_DAYS = DefaultMaxAgeDays
    /\ now = StartDay * SecondsPerDay
    /\ fs = [exists |-> FALSE, files |-> <<>>]
    /\ pc = "idle"
    /\ call = NoCall
    /\ idx = 1
    /\ errors = <<>>
    /\ ret = NoRet
    /\ log = <<>>
    /\ puts = <<>>
    /\ cleared = "no"
    /\ calls = 0
    /\ ticks = 0
    /\ run = NoRun
    /\ calc = NoCalc
    /\ procs = NoProcs

CanCall == pc \in {"idle", "returned", "raised"} /\ calls < MaxCalls

\* Time passes between top-level calls; the finished call's frame is gone.
Tick ==
    /\ pc \in {"idle", "returned", "raised"}
    /\ ticks < MaxTicks
    /\ now' = now + TickStep
    /\ ticks' = ticks + 1
    /\ pc' = "idle"
    /\ call' = NoCall
    /\ ret' = NoRet
    /\ log' = <<>>
    /\ idx' = 1
    /\ errors' = <<>>
    /\ UNCHANGED <<procs, run, calc, cfg, CACHE_MAX_AGE_DAYS, fs, puts, cleared, calls>>

----------------------------------------------------------------------------
\* Series and statistics. A series is a set of runs of consecutive years,
\* [origin, first, last] with first <= last, each run holding one observation
\* per year, all from one origin.

Rows(data) ==
    IF data.first > data.last THEN {}
    ELSE {[origin |-> data.origin, first |-> data.first, last |-> data.last]}

Min(a, b) == IF a <= b THEN a ELSE b

MinYear(series) ==
    LET firsts == {p.first : p \in series} IN
    CHOOSE y \in firsts : \A z \in firsts : y <= z

MaxYear(series) ==
    LET lasts == {p.last : p \in series} IN
    CHOOSE y \in lasts : \A z \in lasts : y >= z

RECURSIVE Count(_)
Count(series) ==
    IF series = {} THEN 0
    ELSE LET p == CHOOSE q \in series : TRUE
         IN (p.last - p.first + 1) + Count(series \ {p})

\* df[df['Year'] >= start_year], series[series.index >= start_year]
FromYear(series, start_year) ==
    {[p EXCEPT !.first = Max(p.first, start_year)] :
        p \in {q \in series : q.last >= start_year}}

\* series[series.index < current_year]
BeforeYear(series, current_year) ==
    {[p EXCEPT !.last = Min(p.last, current_year - 1)] :
        p \in {q \in series : q.first < current_year}}

\* .pct_change().dropna(), .diff()/.shift(1) then .dropna(): the first row has
\* no predecessor and is dropped.
pct_change(series) ==
    IF series = {} THEN {}
    ELSE FromYear(series, MinYear(series) + 1)

\* def compute_stats(name, description, source, returns), lines 204-235;
\* annual_returns keeps, for the observations, where they came from.
compute_stats(name, source, returns) ==
    IF returns = {}
    THEN [ok |-> FALSE, err |-> "ValueError"]
    ELSE [ok |-> TRUE,
          stats |-> [name |-> name,
                     source |-> source,
                     start_year |-> MinYear(returns),
                     end_year |-> MaxYear(returns),
                     num_years |-> Count(returns),
                     annual_returns |-> {p.origin : p \in returns}]]

NoStats == [name |-> "none"]

\* The result of an adapter call: the AssetStats or the exception, the cache
\* directory afterwards, the events, and what was written to the cache.
Failed(err, c, events) ==
    [ok |-> FALSE, stats |-> NoStats, err |-> err, fs |-> c, events |-> events,
     saved |-> NoData]

Finish(name, source, returns, c, events, saved) ==
    LET s == compute_stats(name, source, returns) IN
    IF s.ok
    THEN [ok |-> TRUE, stats |-> s.stats, err |-> "none", fs |-> c,
          events |-> events, saved |-> saved]
    ELSE [ok |-> FALSE, stats |-> NoStats, err |-> s.err, fs |-> c,
          events |-> events, saved |-> saved]

----------------------------------------------------------------------------
\* Shiller (Yale), lines 243-393.

\* def fetch_shiller_data()
fetch_shiller_data(c, t, net) ==
    IF ~cfg.HAS_OPENPYXL
    THEN [ok |-> FALSE, data |-> NoData, fs |-> c, events |-> <<>>,
          err |-> "ImportError"]
    ELSE fetch_url_cached(c, SHILLER_DATA_URL, ".xls", t, net)

\* The source label each Shiller fetcher passes to compute_stats.
ShillerLabel(kind) ==
    CASE kind = "sp500" -> "Robert Shiller, Yale University"
      [] kind = "inflation" -> "Robert Shiller, Yale University (BLS CPI data)"
      [] kind = "bonds" -> "Robert Shiller, Yale University (estimated)"

ShillerName(kind) ==
    CASE kind = "sp500" -> "S&P 500"
      [] kind = "inflation" -> "US Inflation"
      [] kind = "bonds" -> "US Long-Term Bonds"

\* fetch_shiller_sp500_returns, fetch_shiller_inflation, fetch_shiller_bond_returns:
\* filter to start_year, year-over-year change, then complete years only.
fetch_shiller(kind, c, start_year, t, net) ==
    LET d == fetch_shiller_data(c, t, net) IN
    IF ~d.ok THEN Failed(d.err, d.fs, d.events)
    ELSE Finish(ShillerName(kind), ShillerLabel(kind),
                BeforeYear(pct_change(FromYear(Rows(d.data), start_year)), YearOf(t)),
                d.fs, d.events, d.data)

----------------------------------------------------------------------------
\* Kenneth French Data Library, lines 401-739.

\* def fetch_french_csv(filename)
fetch_french_csv(c, filename, t, net) ==
    fetch_url_cached(c, french_url(filename), ".zip", t, net)

FrenchFile(kind) ==
    CASE kind \in {"market", "small_cap", "risk_free"} -> "F-F_Research_Data_Factors_CSV.zip"
      [] kind = "international" -> "Developed_ex_US_3_Factors_CSV.zip"
      [] kind = "emerging" -> "Emerging_5_Factors_CSV.zip"

FrenchName(kind) ==
    CASE kind = "market" -> "US Market"
      [] kind = "small_cap" -> "US Small Cap"
      [] kind = "risk_free" -> "T-Bills"
      [] kind = "international" -> "International Developed"
      [] kind = "emerging" -> "Emerging Markets"

\* Faulty variant of the French adapters' label: another provider's label.
FrenchLabel_copied(kind) == "Robert Shiller, Yale University"

\* source="Kenneth French Data Library, Dartmouth"
FrenchLabel(kind) == "Kenneth French Data Library, Dartmouth"

\* fetch_french_market_returns, _small_cap_returns, _risk_free_rate,
\* _international_returns, _emerging_returns: the annual rows from start_year
\* on, without the current year. The last two re-raise any exception as
\* ValueError.
fetch_french(kind, c, start_year, t, net) ==
    LET d == fetch_french_csv(c, FrenchFile(kind), t, net)
        wrap(e) == IF kind \in {"international", "emerging"} THEN "ValueError" ELSE e
    IN
    IF ~d.ok THEN Failed(wrap(d.err), d.fs, d.events)
    ELSE Finish(FrenchName(kind), FrenchLabel(kind),
                BeforeYear(FromYear(Rows(d.data), start_year), YearOf(t)),
                d.fs, d.events, d.data)

----------------------------------------------------------------------------
\* Damodaran (NYU Stern), lines 747-835.

\* def fetch_damodaran_data(): urlopen, with no cache lookup and no cache write.
fetch_damodaran_data(c, t, net) ==
    IF ~cfg.HAS_OPENPYXL
    THEN [ok |-> FALSE, data |-> NoData, fs |-> c, events |-> <<>>,
          err |-> "ImportError"]
    ELSE IF ~net
    THEN [ok |-> FALSE, data |-> NoData, fs |-> c,
          events |-> <<Ev("net", <<DAMODARAN_URL, ".xls">>, FALSE, -1)>>,
          err |-> "URLError"]
    ELSE [ok |-> TRUE, data |-> urlopen(DAMODARAN_URL, t), fs |-> c,
          events |-> <<Ev("net", <<DAMODARAN_URL, ".xls">>, TRUE, -1)>>,
          err |-> "none"]

\* def fetch_damodaran_returns(column_name, asset_name, description, start_year)
fetch_damodaran_returns(asset_name, c, start_year, t, net) ==
    LET d == fetch_damodaran_data(c, t, net) IN
    IF ~d.ok THEN Failed(d.err, d.fs, d.events)
    ELSE Finish(asset_name, "Aswath Damodaran, NYU Stern",
                BeforeYear(FromYear(Rows(d.data), start_year), YearOf(t)),
                d.fs, d.events, NoData)

----------------------------------------------------------------------------
\* Yahoo Finance, lines 842-890.

\* yf.download(ticker, start=f"{start_year}-01-01", end=f"{end_year + 1}-01-01"):
\* daily prices from start_year up to today.
yf_download(ticker, start_year, t) ==
    [origin |-> ticker, first |-> start_year, last |-> YearOf(t)]

\* def fetch_yahoo_annual_returns(ticker, start_year, end_year=None)
fetch_yahoo_annual_returns(c, ticker, start_year, t, net) ==
    LET end_year   == YearOf(t)
        res        == <<"yahoo", ticker, start_year, end_year>>
        cache_path == <<"yahoo", ticker, start_year, end_year, ".pkl">>
        valid      == is_cache_valid(c, cache_path, DefaultMaxAgeDays, t)
        look       == Ev("lookup", res, valid, Age(c, cache_path, t))
    IN
    IF ~cfg.HAS_YFINANCE
    THEN [ok |-> FALSE, returns |-> {}, fs |-> c, events |-> <<>>,
          err |-> "ImportError", saved |-> NoData]
    ELSE IF valid
    THEN [ok |-> TRUE, returns |-> c.files[cache_path].data, fs |-> c,
          events |-> <<look>>, err |-> "none", saved |-> NoData]
    ELSE IF ~net
    THEN [ok |-> FALSE, returns |-> {}, fs |-> c,
          events |-> <<look, Ev("net", res, FALSE, -1)>>, err |-> "Exception",
          saved |-> NoData]
    ELSE LET data == yf_download(ticker, start_year, t) IN
         IF Rows(data) = {}
         THEN [ok |-> FALSE, returns |-> {}, fs |-> c,
               events |-> <<look, Ev("net", res, TRUE, -1)>>, err |-> "ValueError",
               saved |-> NoData]
         ELSE LET annual_returns == pct_change(Rows(data))
                  w == write_file(mkdir(c), cache_path, annual_returns, t)
              IN [ok |-> w.ok, returns |-> annual_returns, fs |-> w.fs,
                  events |-> <<look, Ev("net", res, TRUE, -1),
                               Ev("save", res, w.ok, -1)>>,
                  err |-> IF w.ok THEN "none" ELSE "FileNotFoundError",
                  saved |-> annual_returns]

\* returns = fetch_yahoo_annual_returns(ticker, start); return compute_stats(
\*     name, description, "Yahoo Finance", returns): the series is used as is.
fetch_yahoo(name, c, ticker, start_year, t, net) ==
    LET y == fetch_yahoo_annual_returns(c, ticker, start_year, t, net) IN
    IF ~y.ok THEN Failed(y.err, y.fs, y.events)
    ELSE Finish(name, "Yahoo Finance", y.returns, y.fs, y.events, y.saved)

----------------------------------------------------------------------------
\* FRED, lines 924-1015.

FredSeries(kind) == IF kind = "tbills" THEN "TB3MS" ELSE "CPIAUCSL"
FredName(kind) == IF kind = "tbills" THEN "T-Bills" ELSE "US Inflation"
FredLabel(kind) == IF kind = "tbills" THEN "FRED (TB3MS)" ELSE "FRED (CPIAUCSL)"

\* fred.get_series(series_id, observation_start=f"{start_year}-01-01")
get_series(series_id, start_year, t) ==
    [origin |-> series_id, first |-> start_year, last |-> YearOf(t)]

\* def fetch_fred_tbills(start_year), def fetch_fred_inflation(start_year):
\* the annual series is cached unfiltered and cut to complete years after
\* the cache.
fetch_fred(kind, c, start_year, t, net) ==
    LET series_id  == FredSeries(kind)
        res        == <<"fred", series_id, start_year>>
        cache_path == <<"fred", series_id, start_year, ".pkl">>
        valid      == is_cache_valid(c, cache_path, DefaultMaxAgeDays, t)
        look       == Ev("lookup", res, valid, Age(c, cache_path, t))
        fresh      == IF kind = "tbills"
                      THEN Rows(get_series(series_id, start_year, t))
                      ELSE pct_change(Rows(get_series(series_id, start_year, t)))
        w          == write_file(mkdir(c), cache_path, fresh, t)
    IN
    IF ~cfg.HAS_FRED THEN Failed("ImportError", c, <<>>)
    ELSE IF ~cfg.FRED_API_KEY THEN Failed("ValueError", c, <<>>)
    ELSE IF valid
    THEN Finish(FredName(kind), FredLabel(kind),
                BeforeYear(c.files[cache_path].data, YearOf(t)), c, <<look>>, NoData)
    ELSE IF ~net
    THEN Failed("Exception", c, <<look, Ev("net", res, FALSE, -1)>>)
    ELSE IF ~w.ok
    THEN Failed("FileNotFoundError", w.fs,
                <<look, Ev("net", res, TRUE, -1), Ev("save", res, FALSE, -1)>>)
    ELSE Finish(FredName(kind), FredLabel(kind), BeforeYear(fresh, YearOf(t)), w.fs,
                <<look, Ev("net", res, TRUE, -1), Ev("save", res, TRUE, -1)>>, fresh)

----------------------------------------------------------------------------
\* Composite fetchers, lines 1081-1257. Each is a list of candidate blocks
\*     if <gate>: try: return <adapter>(...) except Exception as e: errors.append(...)
\* followed by raise ValueError(... '; '.join(errors)).

Cand(id, gate, src, kind, start, name) ==
    [id |-> id, gate |-> gate, src |-> src, kind |-> kind, start |-> start,
     name |-> name]

Chain(fn, start_year) ==
    CASE fn = "fetch_sp500_best" ->
           << Cand("Shiller", "HAS_OPENPYXL", "shiller", "sp500", start_year, "S&P 500"),
              Cand("French", "none", "french", "market", Max(start_year, 1926), "US Market"),
              Cand("Yahoo", "HAS_YFINANCE", "yahoo", "^SP500TR", Max(start_year, 1988),
                   "S&P 500") >>
      [] fn = "fetch_small_cap_best" ->
           << Cand("French", "none", "french", "small_cap", start_year, "US Small Cap"),
              Cand("Yahoo", "HAS_YFINANCE", "yahoo", "^RUT", 1988, "US Small Cap") >>
      [] fn = "fetch_tbills_best" ->
           << Cand("FRED", "FRED", "fred", "tbills", Max(start_year, 1934), "T-Bills"),
              Cand("French", "none", "french", "risk_free", start_year, "T-Bills") >>
      [] fn = "fetch_bonds_best" ->
           << Cand("Shiller", "HAS_OPENPYXL", "shiller", "bonds", start_year,
                   "US Long-Term Bonds"),
              Cand("Yahoo", "HAS_YFINANCE", "yahoo", "TLT", 2002, "US Long-Term Bonds") >>
      [] fn = "fetch_inflation_best" ->
           << Cand("FRED", "FRED", "fred", "inflation", Max(start_year, 1947),
                   "US Inflation"),
              Cand("Shiller", "HAS_OPENPYXL", "shiller", "inflation", start_year,
                   "US Inflation") >>
      [] fn = "fetch_international_best" ->
           << Cand("French", "none", "french", "international", start_year,
                   "International Developed"),
              Cand("Yahoo", "HAS_YFINANCE", "yahoo", "EFA", 2001,
                   "International Developed") >>
      [] fn = "fetch_emerging_best" ->
           << Cand("French", "none", "french", "emerging", start_year, "Emerging Markets"),
              Cand("Yahoo", "HAS_YFINANCE", "yahoo", "EEM", 2003, "Emerging Markets") >>

ChainFns == {"fetch_sp500_best", "fetch_small_cap_best", "fetch_tbills_best",
             "fetch_bonds_best", "fetch_inflation_best", "fetch_international_best",
             "fetch_emerging_best"}

\* if HAS_OPENPYXL: / if HAS_YFINANCE: / if HAS_FRED and os.environ.get("FRED_API_KEY"):
Gate(gate) ==
    CASE gate = "none" -> TRUE
      [] gate = "HAS_OPENPYXL" -> cfg.HAS_OPENPYXL
      [] gate = "HAS_YFINANCE" -> cfg.HAS_YFINANCE
      [] gate = "FRED" -> cfg.HAS_FRED /\ cfg.FRED_API_KEY

\* The call inside the try block.
RunAdapter(cand, c, t, net) ==
    CASE cand.src = "shiller" -> fetch_shiller(cand.kind, c, cand.start, t, net)
      [] cand.src = "french" -> fetch_french(cand.kind, c, cand.start, t, net)
      [] cand.src = "yahoo" -> fetch_yahoo(cand.name, c, cand.kind, cand.start, t, net)
      [] cand.src = "fred" -> fetch_fred(cand.kind, c, cand.start, t, net)

\* Faulty variant of errors.append: only the last failure is kept.
AppendError_overwrite(errs, id, e) == << <<id, e>> >>

\* errors.append(f"{id}: {e}")
AppendError(errs, id, e) == Append(errs, <<id, e>>)

\* Faulty variant of the return: the loop goes on to the next candidate.
AfterSuccess_fallthrough == "chain"

\* return <adapter>(...): the function ends here.
AfterSuccess == "returned"

StartYears == {1926, 1990}

call_fetch_best ==
    \E fn \in ChainFns, start_year \in StartYears :
    /\ CanCall
    /\ call' = [fn |-> fn, start_year |-> start_year]
    /\ pc' = "chain"
    /\ idx' = 1
    /\ errors' = <<>>
    /\ ret' = NoRet
    /\ log' = <<>>
    /\ calls' = calls + 1
    /\ UNCHANGED <<procs, run, calc, cfg, CACHE_MAX_AGE_DAYS, now, fs, puts, cleared, ticks>>

Cands == Chain(call.fn, call.start_year)

\* a candidate block whose gate is false is passed over
skip_candidate ==
    /\ pc = "chain"
    /\ idx <= Len(Cands)
    /\ ~Gate(Cands[idx].gate)
    /\ idx' = idx + 1
    /\ UNCHANGED <<procs, run, calc, cfg, CACHE_MAX_AGE_DAYS, now, fs, pc, call, errors, ret, log,
                   puts, cleared, calls, ticks>>

\* a candidate block whose gate is true: the adapter runs inside try/except
CandidateStep(net) ==
    LET cand == Cands[idx]
        r    == RunAdapter(cand, fs, now, net)
    IN
    /\ idx <= Len(Cands)
    /\ Gate(cand.gate)
    /\ fs' = r.fs
    /\ puts' = RecordPuts(puts, r.events, r.saved, now)
    /\ cleared' = Rewritten(cleared, r.events)
    /\ idx' = idx + 1
    /\ IF r.ok
       THEN /\ ret' = [kind |-> "ok", value |-> r.stats]
            /\ pc' = AfterSuccess
            /\ errors' = errors
            /\ log' = log \o <<[ev |-> "invoke", id |-> cand.id, pos |-> idx]>>
                          \o r.events
                          \o <<[ev |-> "success", id |-> cand.id, pos |-> idx]>>
       ELSE /\ ret' = ret
            /\ pc' = "chain"
            /\ errors' = AppendError(errors, cand.id, r.err)
            /\ log' = log \o <<[ev |-> "invoke", id |-> cand.id, pos |-> idx]>>
                          \o r.events
                          \o <<[ev |-> "fail", id |-> cand.id, pos |-> idx,
                                err |-> r.err]>>
    /\ UNCHANGED <<procs, run, calc, cfg, CACHE_MAX_AGE_DAYS, now, call, calls, ticks>>

try_candidate ==
    \E net \in BOOLEAN :
    /\ pc = "chain"
    /\ CandidateStep(net)

\* raise ValueError(f"Could not fetch ... data: {'; '.join(errors)}")
raise_aggregate ==
    /\ pc = "chain"
    /\ idx > Len(Cands)
    /\ ret' = [kind |-> "raise", error |-> "ValueError", trace |-> errors]
    /\ pc' = "raised"
    /\ UNCHANGED <<procs, run, calc, cfg, CACHE_MAX_AGE_DAYS, now, fs, call, idx, errors, log,
                   puts, cleared, calls, ticks>>

----------------------------------------------------------------------------
\* Single-source fetchers, lines 1260-1327, and the Damodaran fetcher.

YahooOnly ==
    { [fn |-> "fetch_reits_yahoo", name |-> "REITs", ticker |-> "VNQ", start |-> 2004],
      [fn |-> "fetch_gold_yahoo", name |-> "Gold", ticker |-> "GC=F", start |-> 1975],
      [fn |-> "fetch_corporate_bonds_yahoo", name |-> "US Corporate Bonds",
       ticker |-> "LQD", start |-> 2002],
      [fn |-> "fetch_tips_yahoo", name |-> "TIPS", ticker |-> "TIP", start |-> 2003],
      [fn |-> "fetch_aggregate_bonds_yahoo", name |-> "US Aggregate Bond",
       ticker |-> "AGG", start |-> 2003] }

\* The effect of a single adapter call made at top level.
Direct(fn, start_year, r) ==
    /\ CanCall
    /\ call' = [fn |-> fn, start_year |-> start_year]
    /\ fs' = r.fs
    /\ puts' = RecordPuts(puts, r.events, r.saved, now)
    /\ cleared' = Rewritten(cleared, r.events)
    /\ ret' = IF r.ok THEN [kind |-> "ok", value |-> r.stats]
              ELSE [kind |-> "raise", error |-> r.err, trace |-> <<>>]
    /\ pc' = IF r.ok THEN "returned" ELSE "raised"
    /\ log' = r.events
    /\ calls' = calls + 1
    /\ idx' = 1 /\ errors' = <<>>
    /\ UNCHANGED <<procs, run, calc, cfg, CACHE_MAX_AGE_DAYS, now, ticks>>

call_fetch_yahoo_only ==
    \E y \in YahooOnly, net \in BOOLEAN :
    Direct(y.fn, y.start, fetch_yahoo(y.name, fs, y.ticker, y.start, now, net))

call_fetch_damodaran_returns ==
    \E net \in BOOLEAN :
    Direct("fetch_damodaran_returns", 1928,
           fetch_damodaran_returns("S&P 500", fs, 1928, now, net))

Next ==
    \/ call_fetch_best
    \/ skip_candidate
    \/ try_candidate
    \/ raise_aggregate
    \/ call_fetch_yahoo_only
    \/ call_fetch_damodaran_returns
    \/ Tick

Spec == Init /\ [][Next]_vars

----------------------------------------------------------------------------
----------------------------------------------------------------------------
\* The cache functions called directly, and main's cache set-up.

CanCallCache == pc \in {"idle", "returned", "raised"} /\ calls < MaxCacheCalls

\* Keys used: one URL under two suffixes, and a second URL sharing a suffix.
CacheKeys == {<<SHILLER_DATA_URL, ".bin">>, <<SHILLER_DATA_URL, ".zip">>,
              <<french_url("F-F_Research_Data_Factors_CSV.zip"), ".zip">>}
SamplePayloads == {[origin |-> "caller", first |-> 0, last |-> i] : i \in 1..MaxPayload}
CacheDaysChoices == {ArgparseCacheDays, DefaultMaxAgeDays}

call_save_to_cache ==
    \E data \in SamplePayloads, key \in CacheKeys :
    LET url == key[1]
        suffix == key[2]
        w  == save_to_cache(fs, data, url, suffix, now)
        ev == <<Ev("save", <<url, suffix>>, w.ok, -1)>>
    IN
    /\ CanCallCache
    /\ call' = [fn |-> "save_to_cache", url |-> url, suffix |-> suffix]
    /\ fs' = w.fs
    /\ ret' = IF w.ok THEN [kind |-> "ok", value |-> NoData]
              ELSE [kind |-> "raise", error |-> "FileNotFoundError", trace |-> <<>>]
    /\ pc' = IF w.ok THEN "returned" ELSE "raised"
    /\ log' = ev
    /\ puts' = RecordPuts(puts, ev, data, now)
    /\ cleared' = Rewritten(cleared, ev)
    /\ calls' = calls + 1
    /\ idx' = 1 /\ errors' = <<>>
    /\ UNCHANGED <<procs, run, calc, cfg, CACHE_MAX_AGE_DAYS, now, ticks>>

call_load_from_cache ==
    \E key \in CacheKeys :
    LET url == key[1]
        suffix == key[2]
        r == load_from_cache(fs, url, suffix, now) IN
    /\ CanCallCache
    /\ call' = [fn |-> "load_from_cache", url |-> url, suffix |-> suffix]
    /\ ret' = [kind |-> "ok", value |-> r.data]
    /\ pc' = "returned"
    /\ log' = <<Ev("lookup", <<url, suffix>>, r.hit,
                   Age(fs, get_cache_path(url, suffix), now))>>
    /\ calls' = calls + 1
    /\ idx' = 1 /\ errors' = <<>>
    /\ UNCHANGED <<procs, run, calc, cfg, CACHE_MAX_AGE_DAYS, now, fs, puts, cleared, ticks>>

call_fetch_url_cached ==
    \E key \in CacheKeys, net \in BOOLEAN :
    LET url == key[1]
        suffix == key[2]
        r == fetch_url_cached(fs, url, suffix, now, net) IN
    /\ CanCallCache
    /\ call' = [fn |-> "fetch_url_cached", url |-> url, suffix |-> suffix]
    /\ fs' = r.fs
    /\ ret' = IF r.ok THEN [kind |-> "ok", value |-> r.data]
              ELSE [kind |-> "raise", error |-> r.err, trace |-> <<>>]
    /\ pc' = IF r.ok THEN "returned" ELSE "raised"
    /\ log' = r.events
    /\ puts' = RecordPuts(puts, r.events, r.data, now)
    /\ cleared' = Rewritten(cleared, r.events)
    /\ calls' = calls + 1
    /\ idx' = 1 /\ errors' = <<>>
    /\ UNCHANGED <<procs, run, calc, cfg, CACHE_MAX_AGE_DAYS, now, ticks>>

\* main, lines 1504-1513: CACHE_MAX_AGE_DAYS = args.cache_days, then
\* if args.clear_cache and CACHE_DIR.exists(): shutil.rmtree(CACHE_DIR)
main_startup ==
    \E cache_days \in CacheDaysChoices, clear_cache \in BOOLEAN :
    LET doit == clear_cache /\ fs.exists IN
    /\ CanCallCache
    /\ call' = [fn |-> "main", cache_days |-> cache_days, clear_cache |-> clear_cache]
    /\ CACHE_MAX_AGE_DAYS' = cache_days
    /\ fs' = IF doit THEN rmtree(fs) ELSE fs
    /\ puts' = IF clear_cache THEN <<>> ELSE puts
    /\ cleared' = IF doit THEN "cleared" ELSE cleared
    /\ ret' = NoRet
    /\ pc' = "idle"
    /\ log' = <<>>
    /\ calls' = calls + 1
    /\ idx' = 1 /\ errors' = <<>>
    /\ UNCHANGED <<procs, run, calc, cfg, now, ticks>>


\* fetch_yahoo_annual_returns called for one ticker: the pickle cache of Yahoo.
call_fetch_yahoo_annual_returns ==
    \E net \in BOOLEAN :
    LET y == fetch_yahoo_annual_returns(fs, "VNQ", 2004, now, net) IN
    /\ CanCallCache
    /\ call' = [fn |-> "fetch_yahoo_annual_returns", ticker |-> "VNQ"]
    /\ fs' = y.fs
    /\ puts' = RecordPuts(puts, y.events, y.saved, now)
    /\ cleared' = Rewritten(cleared, y.events)
    /\ ret' = IF y.ok THEN [kind |-> "ok", value |-> y.returns]
              ELSE [kind |-> "raise", error |-> y.err, trace |-> <<>>]
    /\ pc' = IF y.ok THEN "returned" ELSE "raised"
    /\ log' = y.events
    /\ calls' = calls + 1
    /\ idx' = 1 /\ errors' = <<>>
    /\ UNCHANGED <<procs, run, calc, cfg, CACHE_MAX_AGE_DAYS, now, ticks>>

\* fetch_fred_tbills called directly: the pickle cache of FRED.
call_fetch_fred_tbills ==
    \E net \in BOOLEAN :
    LET r == fetch_fred("tbills", fs, 1934, now, net) IN
    /\ CanCallCache
    /\ call' = [fn |-> "fetch_fred_tbills", start_year |-> 1934]
    /\ fs' = r.fs
    /\ puts' = RecordPuts(puts, r.events, r.saved, now)
    /\ cleared' = Rewritten(cleared, r.events)
    /\ ret' = IF r.ok THEN [kind |-> "ok", value |-> r.stats]
              ELSE [kind |-> "raise", error |-> r.err, trace |-> <<>>]
    /\ pc' = IF r.ok THEN "returned" ELSE "raised"
    /\ log' = r.events
    /\ calls' = calls + 1
    /\ idx' = 1 /\ errors' = <<>>
    /\ UNCHANGED <<procs, run, calc, cfg, CACHE_MAX_AGE_DAYS, now, ticks>>

\* The cache store on an installation with every capability present.
InitCache == Init /\ cfg = Config(TRUE, TRUE, TRUE, TRUE)

NextCache ==
    \/ call_save_to_cache
    \/ call_load_from_cache
    \/ call_fetch_url_cached
    \/ call_fetch_yahoo_annual_returns
    \/ call_fetch_fred_tbills
    \/ main_startup
    \/ Tick

SpecCache == InitCache /\ [][NextCache]_vars

----------------------------------------------------------------------------
\* main's fetch loop, lines 1527-1572. One iteration of the loop is one step:
\* the fetcher runs to completion inside the try block.

MaxNetFailures == 5

\* the try block of candidate i is entered
Invoke(id, i) == <<[ev |-> "invoke", id |-> id, pos |-> i]>>

\* A fetch_*_best function run to completion from candidate block i on.
\* nets[i] = whether the network delivers to candidate i if it asks.
\* r, the outcome of the adapter call, is bound once per block.
RECURSIVE RunChain(_, _, _, _, _, _, _, _)
RunChain(cands, i, c, t, nets, errs, events, p) ==
    IF i > Len(cands)
    THEN [ok |-> FALSE, stats |-> NoStats, fs |-> c, events |-> events,
          err |-> "ValueError", trace |-> errs, puts |-> p]
    ELSE IF ~Gate(cands[i].gate)
    THEN RunChain(cands, i + 1, c, t, nets, errs, events, p)
    ELSE CHOOSE out \in
           { IF r.ok
             THEN [ok |-> TRUE, stats |-> r.stats, fs |-> r.fs,
                   events |-> events \o Invoke(cands[i].id, i) \o r.events,
                   err |-> "none", trace |-> errs,
                   puts |-> RecordPuts(p, r.events, r.saved, t)]
             ELSE RunChain(cands, i + 1, r.fs, t, nets,
                           AppendError(errs, cands[i].id, r.err),
                           events \o Invoke(cands[i].id, i) \o r.events,
                           RecordPuts(p, r.events, r.saved, t))
             : r \in {RunAdapter(cands[i], c, t, nets[i])} } : TRUE

\* parser default of --start-year
ArgStartYear == 1926

Fetcher(prefix, kind, fn, start, name, ticker) ==
    [prefix |-> prefix, kind |-> kind, fn |-> fn, start |-> start, name |-> name,
     ticker |-> ticker]

\* fetchers = [...]; if HAS_YFINANCE: fetchers.extend([...])
CoreFetchers ==
    << Fetcher("SP_500", "best", "fetch_sp500_best", ArgStartYear, "", ""),
       Fetcher("US_SMALL_CAP", "best", "fetch_small_cap_best", ArgStartYear, "", ""),
       Fetcher("US_TBILLS", "best", "fetch_tbills_best", ArgStartYear, "", ""),
       Fetcher("US_LONG_BOND", "best", "fetch_bonds_best", ArgStartYear, "", ""),
       Fetcher("INTL_DEVELOPED", "best", "fetch_international_best", 1990, "", ""),
       Fetcher("EMERGING_MARKETS", "best", "fetch_emerging_best", 1990, "", "") >>

YahooFetchers ==
    << Fetcher("REITS", "yahoo", "fetch_reits_yahoo", 2004, "REITs", "VNQ"),
       Fetcher("GOLD", "yahoo", "fetch_gold_yahoo", 1975, "Gold", "GC=F"),
       Fetcher("US_AGG_BOND", "yahoo", "fetch_aggregate_bonds_yahoo", 2003,
               "US Aggregate Bond", "AGG"),
       Fetcher("US_CORPORATE_BOND", "yahoo", "fetch_corporate_bonds_yahoo", 2002,
               "US Corporate Bonds", "LQD"),
       Fetcher("TIPS", "yahoo", "fetch_tips_yahoo", 2003, "TIPS", "TIP") >>

fetchers == IF cfg.HAS_YFINANCE THEN CoreFetchers \o YahooFetchers ELSE CoreFetchers

\* stats = fetcher(): what the call returns or raises
RunFetcher(f, c, t, nets, p) ==
    IF f.kind = "best"
    THEN RunChain(Chain(f.fn, f.start), 1, c, t, nets, <<>>, <<>>, p)
    ELSE CHOOSE out \in
           { [ok |-> r.ok, stats |-> r.stats, fs |-> r.fs, events |-> r.events,
              err |-> r.err, trace |-> <<>>,
              puts |-> RecordPuts(p, r.events, r.saved, t)]
             : r \in {fetch_yahoo(f.name, c, f.ticker, f.start, t, nets[1])} } : TRUE

\* the network requests among the events of a call
RECURSIVE NetEvents(_)
NetEvents(events) ==
    IF events = <<>> THEN <<>>
    ELSE IF Head(events).ev = "net"
    THEN <<[res |-> Head(events).res, flag |-> Head(events).flag]>>
            \o NetEvents(Tail(events))
    ELSE NetEvents(Tail(events))

NetFailures(reqs) == Cardinality({i \in DOMAIN reqs : ~reqs[i].flag})

\* the candidates a fetcher call has invoked, in order
RECURSIVE Invoked(_, _)
Invoked(prefix, events) ==
    IF events = <<>> THEN <<>>
    ELSE IF Head(events).ev = "invoke"
    THEN <<[prefix |-> prefix, id |-> Head(events).id]>> \o Invoked(prefix, Tail(events))
    ELSE Invoked(prefix, Tail(events))

NoOutput == [format |-> "none"]

NetChoices == [1..3 -> BOOLEAN]

\* Faulty variant of the except clause: the failure ends the loop.
AfterFetcherError_abort == "output"

\* except Exception as e: print(f"  ERROR: {e}"), and the loop goes on
AfterFetcherError == "fetchers"

\* args = parser.parse_args(); load_dotenv();
\* fred_api_key = args.fred_api_key or os.environ.get("FRED_API_KEY"), a local
\* that is not read again and not exported to os.environ; all_stats = [].
\* arg_key = whether --fred-api-key was given.
main_begin ==
    \E arg_key \in BOOLEAN :
    /\ run = NoRun
    /\ pc = "idle"
    /\ run' = [at |-> "fetchers", i |-> 1, attempted |-> <<>>, all_stats |-> <<>>,
               reported |-> <<>>, inflation_stats |-> NoStats, requests |-> <<>>,
               args_fred_api_key |-> arg_key,
               fred_api_key |-> (arg_key \/ cfg.FRED_API_KEY),
               invoked |-> <<>>, output |-> NoOutput]
    /\ UNCHANGED <<procs, calc, cfg, CACHE_MAX_AGE_DAYS, now, fs, pc, call, idx, errors, ret,
                   log, puts, cleared, calls, ticks>>

\* for prefix, name, fetcher in fetchers: try: ... except Exception as e: print(ERROR)
main_fetch ==
    /\ run.at = "fetchers"
    /\ run.i <= Len(fetchers)
    /\ \E nets \in NetChoices :
       \E f \in {fetchers[run.i]} :
       \E r \in {RunFetcher(f, fs, now, nets, puts)} :
       \E reqs \in {run.requests \o NetEvents(r.events)} :
          /\ NetFailures(reqs) <= MaxNetFailures
          /\ fs' = r.fs
          /\ puts' = r.puts
          /\ run' = [run EXCEPT
                       !.at = IF r.ok THEN @ ELSE AfterFetcherError,
                       !.i = @ + 1,
                       !.attempted = Append(@, f.prefix),
                       !.all_stats = IF r.ok THEN Append(@, <<f.prefix, r.stats>>) ELSE @,
                       !.reported = IF r.ok THEN @ ELSE Append(@, f.prefix),
                       !.invoked = @ \o Invoked(f.prefix, r.events),
                       !.requests = reqs]
          /\ UNCHANGED <<procs, calc, cfg, CACHE_MAX_AGE_DAYS, now, pc, call, idx, errors, ret, log,
                         cleared, calls, ticks>>

\* inflation_stats = None; try: inflation_stats = fetch_inflation_best(args.start_year)
main_inflation ==
    /\ run.at = "fetchers"
    /\ run.i > Len(fetchers)
    /\ \E nets \in NetChoices :
       \E r \in {RunChain(Chain("fetch_inflation_best", ArgStartYear), 1, fs, now,
                          nets, <<>>, <<>>, puts)} :
       \E reqs \in {run.requests \o NetEvents(r.events)} :
          /\ NetFailures(reqs) <= MaxNetFailures
          /\ fs' = r.fs
          /\ puts' = r.puts
          /\ run' = [run EXCEPT
                       !.at = "output",
                       !.attempted = Append(@, "INFLATION"),
                       !.inflation_stats = IF r.ok THEN r.stats ELSE @,
                       !.reported = IF r.ok THEN @ ELSE Append(@, "INFLATION"),
                       !.invoked = @ \o Invoked("INFLATION", r.events),
                       !.requests = reqs]
          /\ UNCHANGED <<procs, calc, cfg, CACHE_MAX_AGE_DAYS, now, pc, call, idx, errors, ret, log,
                         cleared, calls, ticks>>

\* The fields of a printed line that hold a source label: the label is
\* interpolated as it is, so a reader splitting the line at the commas gets
\* one field per comma-separated part of the label.
CommaParts(label) ==
    CASE label = "Robert Shiller, Yale University" ->
           <<"Robert Shiller", " Yale University">>
      [] label = "Robert Shiller, Yale University (BLS CPI data)" ->
           <<"Robert Shiller", " Yale University (BLS CPI data)">>
      [] label = "Robert Shiller, Yale University (estimated)" ->
           <<"Robert Shiller", " Yale University (estimated)">>
      [] label = "Kenneth French Data Library, Dartmouth" ->
           <<"Kenneth French Data Library", " Dartmouth">>
      [] label = "Yahoo Finance" -> <<"Yahoo Finance">>
      [] label = "FRED (TB3MS)" -> <<"FRED (TB3MS)">>
      [] label = "FRED (CPIAUCSL)" -> <<"FRED (CPIAUCSL)">>

\* print("name,source,start_year,end_year,arithmetic_mean,...,kurtosis")
CsvHeader ==
    <<"name", "source", "start_year", "end_year", "arithmetic_mean",
      "geometric_mean", "std_dev", "skewness", "kurtosis">>

\* print(f"{prefix},{stats.source},{stats.start_year},{stats.end_year},"
\*       f"{stats.arithmetic_mean:.6f},...,{stats.kurtosis:.4f}"), split at the commas
CsvRow(prefix, stats) ==
    <<prefix>> \o CommaParts(stats.source)
        \o <<"start_year", "end_year", "arithmetic_mean:.6f", "geometric_mean:.6f",
             "std_dev:.6f", "skewness:.4f", "kurtosis:.4f">>

\* def to_dict(self): the fields of the record that matter here
to_dict(stats) ==
    [name |-> stats.name, source |-> stats.source, start_year |-> stats.start_year,
     end_year |-> stats.end_year, num_years |-> stats.num_years]

\* "sources": [...] of the json output
JsonSources ==
    {"Robert Shiller, Yale University", "Kenneth French Data Library, Dartmouth",
     "Yahoo Finance"}

\* if args.output == "json": ... elif args.output == "csv": ... else: # rust
Output(format, all_stats, inflation_stats) ==
    CASE format = "json" ->
           [format |-> "json",
            sources |-> JsonSources,
            return_profiles |->
               [i \in DOMAIN all_stats |-> <<all_stats[i][1], to_dict(all_stats[i][2])>>],
            inflation |-> IF inflation_stats # NoStats
                          THEN <<to_dict(inflation_stats)>> ELSE <<>>]
      [] format = "csv" ->
           [format |-> "csv",
            header |-> CsvHeader,
            rows |-> [i \in DOMAIN all_stats |->
                         CsvRow(all_stats[i][1], all_stats[i][2])]
                     \o (IF inflation_stats # NoStats
                         THEN <<CsvRow("INFLATION", inflation_stats)>> ELSE <<>>)]
      [] format = "rust" ->
           [format |-> "rust",
            consts |-> [i \in DOMAIN all_stats |-> all_stats[i][1]],
            inflation |-> inflation_stats # NoStats]

\* the output section; return 0
main_output ==
    \E format \in {"rust", "json", "csv"} :
    /\ run.at = "output"
    /\ run' = [run EXCEPT !.at = "done",
                          !.output = Output(format, run.all_stats, run.inflation_stats)]
    /\ UNCHANGED <<procs, calc, cfg, CACHE_MAX_AGE_DAYS, now, fs, pc, call, idx, errors, ret,
                   log, puts, cleared, calls, ticks>>

NextMain ==
    \/ main_begin
    \/ main_fetch
    \/ main_inflation
    \/ main_output

SpecMain == Init /\ [][NextMain]_vars

----------------------------------------------------------------------------
\* Blocking network calls. A candidate that has to ask the network sends its
\* request and waits; the wait ends when the remote side answers or fails, or
\* when the deadline the code has set for the call expires.

MaxLiveCalls == 2

\* whether the adapter of a candidate block would go to the network
NeedsNetwork(cand, c, t) ==
    LET ev == RunAdapter(cand, c, t, TRUE).events
    IN \E i \in DOMAIN ev : ev[i].ev = "net"

\* urlopen(req, timeout=60) in fetch_url_cached; yf.download(...) and
\* fred.get_series(...) are called without a timeout.
HasDeadline(src) ==
    CASE src \in {"shiller", "french"} -> TRUE
      [] src \in {"yahoo", "fred"} -> FALSE

live_call_fetch_best ==
    /\ calls < MaxLiveCalls
    /\ call_fetch_best
    /\ call'.start_year = ArgStartYear

\* the adapter answers from the cache or fails before any request
run_local ==
    /\ pc = "chain"
    /\ idx <= Len(Cands)
    /\ Gate(Cands[idx].gate)
    /\ ~NeedsNetwork(Cands[idx], fs, now)
    /\ CandidateStep(TRUE)

\* the request goes out and the call blocks
send_request ==
    /\ pc = "chain"
    /\ idx <= Len(Cands)
    /\ Gate(Cands[idx].gate)
    /\ NeedsNetwork(Cands[idx], fs, now)
    /\ pc' = "waiting"
    /\ UNCHANGED <<procs, run, calc, cfg, CACHE_MAX_AGE_DAYS, now, fs, call, idx, errors, ret,
                   log, puts, cleared, calls, ticks>>

\* the remote side delivers or refuses
remote_answers ==
    \E net \in BOOLEAN :
    /\ pc = "waiting"
    /\ CandidateStep(net)

\* the timeout set by the code ends the wait with an error
deadline_expires ==
    /\ pc = "waiting"
    /\ HasDeadline(Cands[idx].src)
    /\ CandidateStep(FALSE)

NextLive ==
    \/ live_call_fetch_best
    \/ skip_candidate
    \/ run_local
    \/ send_request
    \/ remote_answers
    \/ deadline_expires
    \/ raise_aggregate

\* The program takes its steps and a deadline that is set does expire; the
\* remote side is under no obligation to answer.
\* (at most one of the program's own steps is enabled in any state)
ProgramStep == skip_candidate \/ run_local \/ send_request \/ raise_aggregate

\* an installation with every optional package, and one with none
InitLive == Init /\ cfg \in {Config(TRUE, TRUE, TRUE, TRUE),
                              Config(FALSE, FALSE, FALSE, FALSE)}

SpecLive ==
    /\ InitLive
    /\ [][NextLive]_vars
    /\ WF_vars(ProgramStep)
    /\ WF_vars(deadline_expires)

----------------------------------------------------------------------------
\* Statistics and export, lines 204-235 and 1334-1424, on the values of a
\* series. A return is an integer number of units of 5% (the fat-tail
\* threshold); a mean is an exact fraction [num, den] of one; a standard
\* deviation is kept as its square, the variance, or is nan.

MaxLen == 3
MaxDf == 5

\* if stats.std_dev > 0.05: (5 percent)
FatTailPercent == 5
\* df = 5.0
StudentTDf == 5
\* stats.std_dev < stats.arithmetic_mean * 3
LogNormalMaxRatio == 3

Scale == 100 \div FatTailPercent

\* returns of -150%, -100%, -5%, 0, 5%, 10%, 15%, 100%
ReturnValues == {-30, -20, -1, 0, 1, 2, 3, 20}

SeriesOfLen(n) == [1..n -> ReturnValues]
AllSeries == UNION {SeriesOfLen(n) : n \in 0..MaxLen}

Rat(num, den) == [num |-> num, den |-> den]

RECURSIVE SumSeq(_)
SumSeq(arr) == IF arr = <<>> THEN 0 ELSE Head(arr) + SumSeq(Tail(arr))

RECURSIVE SumSq(_)
SumSq(arr) == IF arr = <<>> THEN 0 ELSE Head(arr) * Head(arr) + SumSq(Tail(arr))

\* np.prod(1 + arr), in units of Scale^n
RECURSIVE prod(_)
prod(arr) == IF arr = <<>> THEN 1 ELSE (Scale + Head(arr)) * prod(Tail(arr))

RECURSIVE Pow(_, _)
Pow(b, e) == IF e = 0 THEN 1 ELSE b * Pow(b, e - 1)

\* x ** (1 / n) for x > 0, rounded down to a whole unit
NthRoot(x, n) ==
    CHOOSE g \in 0..(Scale + Scale) : Pow(g, n) <= x /\ x < Pow(g + 1, n)

\* Faulty variant of the geometric mean: the sign of the product is ignored.
geo_mean_abs(cumulative, n) ==
    IF cumulative = 0 THEN Rat(-Scale, Scale)
    ELSE Rat(NthRoot(IF cumulative > 0 THEN cumulative ELSE -cumulative, n) - Scale,
             Scale)

\* if cumulative > 0: geo_mean = cumulative ** (1 / len(arr)) - 1
\* else: geo_mean = -1.0
geo_mean(cumulative, n) ==
    IF cumulative > 0
    THEN Rat(NthRoot(cumulative, n) - Scale, Scale)
    ELSE Rat(-Scale, Scale)

\* np.std(arr, ddof=1): nan for a single observation, else the square root of
\* sum((x - mean)^2) / (n - 1) = (n * sum(x^2) - sum(x)^2) / (n * (n - 1))
std(arr) ==
    LET n == Len(arr) IN
    IF n < 2
    THEN [nan |-> TRUE, var |-> Rat(0, 1)]
    ELSE [nan |-> FALSE,
          var |-> Rat(n * SumSq(arr) - SumSeq(arr) * SumSeq(arr),
                      n * (n - 1) * Scale * Scale)]

\* compute_stats, the part that works on the values (lines 207-232)
compute_stats_values(arr) ==
    IF Len(arr) = 0
    THEN [kind |-> "raise", error |-> "ValueError"]
    ELSE [kind |-> "ok",
          value |-> [num_years |-> Len(arr),
                     arithmetic_mean |-> Rat(SumSeq(arr), Len(arr) * Scale),
                     geometric_mean |-> geo_mean(prod(arr), Len(arr)),
                     std_dev |-> std(arr)]]

\* a > 0 for a fraction with a positive denominator
RatPositive(a) == a.num > 0

\* std_dev < mean * k, for mean > 0: variance < (mean * k)^2; nan compares false
StdLessThanTimes(sd, mean, k) ==
    /\ ~sd.nan
    /\ sd.var.num * mean.den * mean.den < k * k * mean.num * mean.num * sd.var.den

\* Faulty variant of the comparison: the threshold itself passes.
StdAtLeastPercent(sd, p) ==
    /\ ~sd.nan
    /\ sd.var.num * 100 * 100 >= p * p * sd.var.den

\* std_dev > p percent: variance > (p / 100)^2; nan compares false
StdGreaterThanPercent(sd, p) ==
    /\ ~sd.nan
    /\ sd.var.num * 100 * 100 > p * p * sd.var.den

\* degrees of freedom, in halves: -1.0, -0.5, ..., MaxDf
DfValues == {Rat(k, 2) : k \in (-2)..(2 * MaxDf)}

\* Faulty variant of compute_student_t_scale: df = 2 is let through.
compute_student_t_scale_lt(std_dev, df) ==
    IF df.num < 2 * df.den
    THEN [kind |-> "raise", error |-> "ValueError"]
    ELSE [kind |-> "ok",
          value |-> [std_dev |-> std_dev,
                     times_sqrt |-> Rat(df.num - 2 * df.den, df.num)]]

\* if df <= 2: raise ValueError("df must be > 2 for finite variance")
\* return std_dev * np.sqrt((df - 2) / df)
compute_student_t_scale(std_dev, df) ==
    IF df.num <= 2 * df.den
    THEN [kind |-> "raise", error |-> "ValueError"]
    ELSE [kind |-> "ok",
          value |-> [std_dev |-> std_dev,
                     times_sqrt |-> Rat(df.num - 2 * df.den, df.num)]]

\* The constants a formatter prints, in order. The digits printed are not
\* modelled: a parameter is the statistic that is formatted.
Fixed(value) == [model |-> "Fixed", value |-> value]
Normal(mean, sd) == [model |-> "Normal", mean |-> mean, std_dev |-> sd]
LogNormal(mean, sd) == [model |-> "LogNormal", mean |-> mean, std_dev |-> sd]
StudentT(mean, scale, df) ==
    [model |-> "StudentT", mean |-> mean, scale |-> scale, df |-> df]

\* Faulty variant of the Fixed constant: the arithmetic mean is printed.
FixedValue_arithmetic(stats) == stats.arithmetic_mean

\* ReturnProfile::Fixed({stats.geometric_mean:.6})
FixedValue(stats) == stats.geometric_mean

\* if stats.arithmetic_mean > 0 and stats.std_dev < stats.arithmetic_mean * 3
LogNormalAppropriate(stats) ==
    /\ RatPositive(stats.arithmetic_mean)
    /\ StdLessThanTimes(stats.std_dev, stats.arithmetic_mean, LogNormalMaxRatio)

\* def format_rust_const(stats, const_prefix)
format_rust_const(stats) ==
    LET base == <<Fixed(FixedValue(stats)),
                  Normal(stats.arithmetic_mean, stats.std_dev)>>
        logn == IF LogNormalAppropriate(stats)
                THEN <<LogNormal(stats.arithmetic_mean, stats.std_dev)>>
                ELSE <<>>
        df   == Rat(StudentTDf, 1)
        sc   == compute_student_t_scale(stats.std_dev, df)
    IN IF StdGreaterThanPercent(stats.std_dev, FatTailPercent)
       THEN IF sc.kind = "ok"
            THEN [kind |-> "ok",
                  value |-> base \o logn
                            \o <<StudentT(stats.arithmetic_mean, sc.value, df)>>]
            ELSE sc
       ELSE [kind |-> "ok", value |-> base \o logn]

\* def format_inflation_rust_const(stats)
format_inflation_rust_const(stats) ==
    [kind |-> "ok",
     value |-> <<Fixed(FixedValue(stats)),
                 Normal(stats.arithmetic_mean, stats.std_dev)>>]

call_compute_stats ==
    \E arr \in AllSeries :
    /\ calc = NoCalc
    /\ calc' = [op |-> "compute_stats", arr |-> arr,
                result |-> compute_stats_values(arr)]
    /\ UNCHANGED <<procs, run, cfg, CACHE_MAX_AGE_DAYS, now, fs, pc, call, idx, errors, ret,
                   log, puts, cleared, calls, ticks>>

\* print(format_rust_const(stats, prefix)) for the stats of a fetched series
call_format_rust_const ==
    \E arr \in AllSeries :
    /\ calc = NoCalc
    /\ compute_stats_values(arr).kind = "ok"
    /\ calc' = [op |-> "format_rust_const", arr |-> arr,
                stats |-> compute_stats_values(arr).value,
                result |-> format_rust_const(compute_stats_values(arr).value)]
    /\ UNCHANGED <<procs, run, cfg, CACHE_MAX_AGE_DAYS, now, fs, pc, call, idx, errors, ret,
                   log, puts, cleared, calls, ticks>>

\* print(format_inflation_rust_const(inflation_stats))
call_format_inflation_rust_const ==
    \E arr \in AllSeries :
    /\ calc = NoCalc
    /\ compute_stats_values(arr).kind = "ok"
    /\ calc' = [op |-> "format_inflation_rust_const", arr |-> arr,
                stats |-> compute_stats_values(arr).value,
                result |-> format_inflation_rust_const(compute_stats_values(arr).value)]
    /\ UNCHANGED <<procs, run, cfg, CACHE_MAX_AGE_DAYS, now, fs, pc, call, idx, errors, ret,
                   log, puts, cleared, calls, ticks>>

\* the standard deviations handed to compute_student_t_scale: of one return
\* (nan) and of two
StdDevInputs == {std(arr) : arr \in SeriesOfLen(1) \cup SeriesOfLen(2)}

call_compute_student_t_scale ==
    \E std_dev \in StdDevInputs, df \in DfValues :
    /\ calc = NoCalc
    /\ calc' = [op |-> "compute_student_t_scale", std_dev |-> std_dev, df |-> df,
                result |-> compute_student_t_scale(std_dev, df)]
    /\ UNCHANGED <<procs, run, cfg, CACHE_MAX_AGE_DAYS, now, fs, pc, call, idx, errors, ret,
                   log, puts, cleared, calls, ticks>>

----------------------------------------------------------------------------
\* The raw series arrays, lines 1389-1445.

MaxRawLen == 17

\* annual_returns[i:i+8], range(0, len(annual_returns), 8)
RowWidth == 8

\* Series to print: 1, 2, ..., n and a series with repeated values.
RawSeries ==
    UNION {{[i \in 1..n |-> i], [i \in 1..n |-> i % 3]} : n \in 0..MaxRawLen}

\* Faulty variant of the slice: the last element of the slice is left out.
Slice_short(vals, i, j) == SubSeq(vals, i + 1, Min(j, Len(vals)) - 1)

\* vals[i:j] for 0 <= i <= j: positions i .. j-1, counted from 0, cut at
\* the end of the list
Slice(vals, i, j) == SubSeq(vals, i + 1, Min(j, Len(vals)))

\* range(0, n, step) as a list
RangeStep(n, step) == [k \in 1..((n + step - 1) \div step) |-> (k - 1) * step]

\* ",\n        ".join(", ".join(f"{r:.4f}" for r in annual_returns[i:i+8])
\*                     for i in range(0, len(annual_returns), 8)): the rows
ReturnsRows(annual_returns) ==
    LET starts == RangeStep(Len(annual_returns), RowWidth) IN
    [k \in DOMAIN starts |-> Slice(annual_returns, starts[k], starts[k] + RowWidth)]

\* def format_rust_historical_returns(stats, const_prefix)
format_rust_historical_returns(annual_returns) ==
    [const |-> "ANNUAL_RETURNS", rows |-> ReturnsRows(annual_returns)]

\* def format_inflation_rust_array(stats)
format_inflation_rust_array(annual_returns) ==
    [const |-> "US_CPI_ANNUAL_RATES", rows |-> ReturnsRows(annual_returns)]

call_format_rust_historical_returns ==
    \E vals \in RawSeries :
    /\ calc = NoCalc
    /\ calc' = [op |-> "format_rust_historical_returns", annual_returns |-> vals,
                result |-> format_rust_historical_returns(vals)]
    /\ UNCHANGED <<procs, run, cfg, CACHE_MAX_AGE_DAYS, now, fs, pc, call, idx, errors, ret,
                   log, puts, cleared, calls, ticks>>

call_format_inflation_rust_array ==
    \E vals \in RawSeries :
    /\ calc = NoCalc
    /\ calc' = [op |-> "format_inflation_rust_array", annual_returns |-> vals,
                result |-> format_inflation_rust_array(vals)]
    /\ UNCHANGED <<procs, run, cfg, CACHE_MAX_AGE_DAYS, now, fs, pc, call, idx, errors, ret,
                   log, puts, cleared, calls, ticks>>

----------------------------------------------------------------------------
\* The statistics as printed by main, lines 1579-1602, and by
\* format_rust_const, lines 1355-1361.  A statistic is a whole number of
\* units of 10^-8; printed text is the triple of its sign, its digits read as
\* one number and the count of digits after the point, so that "0.05" is
\* [neg |-> FALSE, int |-> 5, places |-> 2] and "0.050000" is
\* [neg |-> FALSE, int |-> 50000, places |-> 6].

\* digits after the point carried by a statistic
UnitPlaces == 8

\* The statistics drawn.  None lies exactly half way between two neighbours
\* at two, four or six places or at six significant digits, so the direction
\* in which the binary value would break such a tie plays no part; each is
\* zero or at least 10^-4 in size, so none is printed with an exponent.
RenderValues ==
    {0, 10000, 5000000, 7123456, 12345678, 33333333, 100000000, 123456789,
     -2600000}

StatFields == {"arithmetic_mean", "geometric_mean", "std_dev", "skewness", "kurtosis"}

Abs(v) == IF v < 0 THEN -v ELSE v

RECURSIVE Pow10(_)
Pow10(k) == IF k = 0 THEN 1 ELSE 10 * Pow10(k - 1)

\* count of decimal digits of n >= 1
RECURSIVE Digits(_)
Digits(n) == IF n < 10 THEN 1 ELSE 1 + Digits(n \div 10)

\* n / d rounded to the nearest whole number, n >= 0
RoundDiv(n, d) == (2 * n + d) \div (2 * d)

\* f"{v:.{d}f}": d digits after the point, always
format_f(v, d) ==
    [neg |-> v < 0, int |-> RoundDiv(Abs(v), Pow10(UnitPlaces - d)), places |-> d]

\* trailing zeros removed, one digit after the point always kept
RECURSIVE StripZeros(_)
StripZeros(text) ==
    IF text.places > 1 /\ text.int % 10 = 0
    THEN StripZeros([text EXCEPT !.int = @ \div 10, !.places = @ - 1])
    ELSE text

\* f"{v:.{p}}": p significant digits, trailing zeros removed
format_general(v, p) ==
    IF v = 0 THEN [neg |-> FALSE, int |-> 0, places |-> 1]
    ELSE LET places == p + UnitPlaces - Digits(Abs(v)) IN
         IF places >= UnitPlaces
         THEN StripZeros([neg |-> v < 0, int |-> Abs(v), places |-> UnitPlaces])
         ELSE StripZeros(format_f(v, places))

\* json.dumps(output, indent=2) of stats.to_dict()[field]: the repr of the
\* float, the shortest text that reads back as v
render_json(field, v) == StripZeros([neg |-> v < 0, int |-> Abs(v), places |-> UnitPlaces])

\* the csv row: {mean:.6f}, {std_dev:.6f}, {skewness:.4f}, {kurtosis:.4f}
render_csv(field, v) ==
    IF field \in {"skewness", "kurtosis"} THEN format_f(v, 4) ELSE format_f(v, 6)

\* format_rust_const: the constants hold {mean:.6} and {std_dev:.6}; the
\* skewness and the kurtosis appear in the comment only, as {:.2f}
render_rust(field, v) ==
    IF field \in {"skewness", "kurtosis"} THEN format_f(v, 2) ELSE format_general(v, 6)

\* the comment lines of format_rust_const: means as {:.4f}, shape as {:.2f}
render_rust_comment(field, v) ==
    IF field \in {"skewness", "kurtosis"} THEN format_f(v, 2) ELSE format_f(v, 4)

\* One statistic of one AssetStats printed under each --output choice.
call_print_statistic ==
    \E field \in StatFields, v \in RenderValues :
    /\ calc = NoCalc
    /\ calc' = [op |-> "print_statistic", field |-> field, value |-> v,
                json |-> render_json(field, v),
                csv |-> render_csv(field, v),
                rust |-> render_rust(field, v),
                rust_comment |-> render_rust_comment(field, v)]
    /\ UNCHANGED <<procs, run, cfg, CACHE_MAX_AGE_DAYS, now, fs, pc, call, idx, errors, ret,
                   log, puts, cleared, calls, ticks>>

----------------------------------------------------------------------------
\* src/data/analyze_inflation.py, analyze_data, lines 82-105: the lognormal
\* parameters of a series of decimal values.  The logarithms are not
\* computed: a fit is the list of observations it is taken over.

\* positive_multipliers = [m for m in growth_multipliers if m > 0], as the
\* returns they come from
positive_multipliers(decimal_values) ==
    SelectSeq(decimal_values, LAMBDA r : Scale + r > 0)

\* def analyze_data(filepath), from the Normal parameters to the Lognormal
\* line.  std_dev divides by n - 1.
analyze_data(decimal_values) ==
    LET positive == positive_multipliers(decimal_values)
        negative_count == Len(decimal_values) - Len(positive)
        warnings == IF Len(positive) < Len(decimal_values)
                    THEN <<[warning |-> "excluded from lognormal",
                            negative_count |-> negative_count]>>
                    ELSE <<>>
    IN IF Len(decimal_values) = 0
       THEN [kind |-> "error", err |-> "IndexError", printed |-> <<>>]
       ELSE IF Len(decimal_values) = 1
       THEN [kind |-> "error", err |-> "ZeroDivisionError", printed |-> <<>>]
       ELSE IF Len(positive) = 0
       THEN [kind |-> "ok", lognormal |-> "cannot calculate", printed |-> warnings]
       ELSE IF Len(positive) = 1
       THEN [kind |-> "error", err |-> "ZeroDivisionError", printed |-> warnings]
       ELSE [kind |-> "ok", lognormal |-> "fitted", log_values |-> positive,
             printed |-> warnings]

call_analyze_data ==
    \E arr \in AllSeries :
    /\ calc = NoCalc
    /\ calc' = [op |-> "analyze_data", arr |-> arr, result |-> analyze_data(arr)]
    /\ UNCHANGED <<procs, run, cfg, CACHE_MAX_AGE_DAYS, now, fs, pc, call, idx, errors, ret,
                   log, puts, cleared, calls, ticks>>

\* One computation per behaviour: an input is drawn and the function applied.
InitStats == Init /\ cfg = Config(TRUE, TRUE, TRUE, TRUE)

NextStats ==
    \/ call_compute_stats
    \/ call_format_rust_const
    \/ call_format_inflation_rust_const
    \/ call_compute_student_t_scale
    \/ call_format_rust_historical_returns
    \/ call_format_inflation_rust_array
    \/ call_print_statistic
    \/ call_analyze_data

SpecStats == InitStats /\ [][NextStats]_vars

----------------------------------------------------------------------------
\* Runs of the script that share CACHE_DIR.  Path.write_bytes(data) and
\* `with open(cache_path, 'wb') as f` open the file, which empties it, and
\* then write through a descriptor with its own offset; each of these is a
\* step of its own when another run is at work in the same directory.

MaxBlob == 2

\* The bytes of a download, as a string of x and y.
Blobs == UNION {[1..n -> {"x", "y"}] : n \in 1..MaxBlob}

SharedUrls == {SHILLER_DATA_URL, DAMODARAN_URL}

\* open(path, 'wb'): the file is created or cut to length 0
open_wb(c, path, t) ==
    [c EXCEPT !.files =
        [p \in (DOMAIN c.files) \cup {path} |->
            IF p = path THEN [data |-> <<>>, mtime |-> t] ELSE c.files[p]]]

\* f.write(data) on a descriptor opened at offset 0: the bytes are laid over
\* the start of the file, what lies beyond them stays
write_bytes(c, path, data, t) ==
    LET old == c.files[path].data IN
    [c EXCEPT !.files[path] =
        [data |-> data \o SubSeq(old, Len(data) + 1, Len(old)), mtime |-> t]]

\* save_to_cache, line 114: CACHE_DIR.mkdir(exist_ok=True)
save_mkdir(w) ==
    \E url \in SharedUrls, data \in Blobs :
    /\ procs[w].pc = "idle"
    /\ procs' = [procs EXCEPT ![w] = [pc |-> "open", path |-> get_cache_path(url, ".xls"),
                                      data |-> data]]
    /\ fs' = mkdir(fs)
    /\ UNCHANGED <<run, calc, cfg, CACHE_MAX_AGE_DAYS, now, pc, call, idx, errors, ret,
                   log, puts, cleared, calls, ticks>>

\* save_to_cache, line 115, first half: the file is opened for writing
save_open(w) ==
    /\ procs[w].pc = "open"
    /\ procs' = [procs EXCEPT ![w].pc = "write"]
    /\ fs' = open_wb(fs, procs[w].path, now)
    /\ UNCHANGED <<run, calc, cfg, CACHE_MAX_AGE_DAYS, now, pc, call, idx, errors, ret,
                   log, puts, cleared, calls, ticks>>

\* save_to_cache, line 115, second half: the bytes are written and the file closed
save_write(w) ==
    /\ procs[w].pc = "write"
    /\ procs' = [procs EXCEPT ![w].pc = "done"]
    /\ fs' = write_bytes(fs, procs[w].path, procs[w].data, now)
    /\ UNCHANGED <<run, calc, cfg, CACHE_MAX_AGE_DAYS, now, pc, call, idx, errors, ret,
                   log, puts, cleared, calls, ticks>>

\* load_from_cache, lines 120-121: if is_cache_valid(cache_path)
load_check(r) ==
    \E url \in SharedUrls :
    LET cache_path == get_cache_path(url, ".xls") IN
    /\ procs[r].pc = "idle"
    /\ procs' = [procs EXCEPT ![r] =
                   IF is_cache_valid(fs, cache_path, DefaultMaxAgeDays, now)
                   THEN [pc |-> "read", path |-> cache_path]
                   ELSE [pc |-> "done", path |-> cache_path,
                         result |-> [hit |-> FALSE, data |-> NoData]]]
    /\ UNCHANGED <<run, calc, cfg, CACHE_MAX_AGE_DAYS, now, fs, pc, call, idx, errors,
                   ret, log, puts, cleared, calls, ticks>>

\* load_from_cache, line 123: return cache_path.read_bytes()
load_read(r) ==
    /\ procs[r].pc = "read"
    /\ procs' = [procs EXCEPT ![r] =
                   [pc |-> "done", path |-> procs[r].path,
                    result |-> [hit |-> TRUE, data |-> fs.files[procs[r].path].data]]]
    /\ UNCHANGED <<run, calc, cfg, CACHE_MAX_AGE_DAYS, now, fs, pc, call, idx, errors,
                   ret, log, puts, cleared, calls, ticks>>

InitConc == Init /\ cfg = Config(TRUE, TRUE, TRUE, TRUE)

NextConc ==
    \/ \E w \in Writers : save_mkdir(w)
    \/ \E w \in Writers : save_open(w)
    \/ \E w \in Writers : save_write(w)
    \/ \E r \in Readers : load_check(r)
    \/ \E r \in Readers : load_read(r)

SpecConc == InitConc /\ [][NextConc]_vars

----------------------------------------------------------------------------
\* Properties.

IsChainCall == call.fn \in ChainFns

\* positions of the log that hold an event of one kind
Idx(ev) == {i \in DOMAIN log : log[i].ev = ev}

\* position in the log of the k-th adapter invocation
NthInvoke(k) ==
    CHOOSE i \in Idx("invoke") : Cardinality({j \in Idx("invoke") : j <= i}) = k

\* Which provider a source label names, and which provider served an origin.
LabelProvider(label) ==
    CASE label \in {"Robert Shiller, Yale University",
                    "Robert Shiller, Yale University (BLS CPI data)",
                    "Robert Shiller, Yale University (estimated)"} -> "Shiller"
      [] label = "Kenneth French Data Library, Dartmouth" -> "French"
      [] label = "Yahoo Finance" -> "Yahoo"
      [] label \in {"FRED (TB3MS)", "FRED (CPIAUCSL)"} -> "FRED"
      [] OTHER -> "unknown"

OriginProvider(origin) ==
    CASE origin = SHILLER_DATA_URL -> "Shiller"
      [] origin \in {french_url("F-F_Research_Data_Factors_CSV.zip"),
                     french_url("Developed_ex_US_3_Factors_CSV.zip"),
                     french_url("Emerging_5_Factors_CSV.zip")} -> "French"
      [] origin \in {"^SP500TR", "^RUT", "TLT", "EFA", "EEM"} -> "Yahoo"
      [] origin \in {"TB3MS", "CPIAUCSL"} -> "FRED"
      [] OTHER -> "unknown"

\* The failure entries a returned or raised value carries.
DiagnosticTrace(r) ==
    IF r.kind = "raise" THEN r.trace
    ELSE IF r.kind = "ok" /\ "trace" \in DOMAIN r.value THEN r.value.trace
    ELSE <<>>

TTL == DefaultMaxAgeDays * SecondsPerDay

\* C1: in every fallback chain the candidates are invoked in list order, a
\* later one only after each earlier invoked one has failed, none whose gate
\* is open is passed over, and nothing is invoked after a success: the call
\* returns at the first success.
C1_InOrderFirstSuccess ==
    IsChainCall =>
        /\ \A i \in Idx("invoke"), j \in Idx("invoke") :
              i < j => /\ log[i].pos < log[j].pos
                       /\ \E k \in Idx("fail") :
                             i < k /\ k < j /\ log[k].pos = log[i].pos
        /\ \A i \in Idx("invoke") : \A q \in 1..(log[i].pos - 1) :
              Gate(Cands[q].gate) =>
                  \E j \in Idx("invoke") : j < i /\ log[j].pos = q
        /\ \A i \in Idx("success") : i = Len(log)
        /\ (pc = "chain") => Idx("success") = {}
        /\ (pc = "returned") => Idx("success") # {}

\* C1 witness: the third candidate of a chain succeeded after two failures.
C1_Witness ==
    /\ IsChainCall
    /\ pc = "returned"
    /\ Cardinality(Idx("invoke")) = 3
    /\ Cardinality(Idx("fail")) = 2

\* C2: when every candidate tried has failed, the chain raises one ValueError
\* whose trace has exactly one (adapter id, error) entry per adapter invoked,
\* in invocation order.
C2_AggregateTrace ==
    (IsChainCall /\ pc = "raised") =>
        /\ ret.kind = "raise"
        /\ ret.error = "ValueError"
        /\ Idx("success") = {}
        /\ Len(ret.trace) = Cardinality(Idx("invoke"))
        /\ \A k \in 1..Len(ret.trace) :
              \E f \in Idx("fail") :
                  /\ log[f].pos = log[NthInvoke(k)].pos
                  /\ ret.trace[k] = <<log[NthInvoke(k)].id, log[f].err>>

\* C2 witness: all three candidates of a chain were tried and failed.
C2_Witness ==
    /\ IsChainCall
    /\ pc = "raised"
    /\ Len(ret.trace) = 3

\* C3 as stated: when an earlier candidate failed and a later one succeeded,
\* the returned result carries the earlier failure in its diagnostic trace.
C3_TraceOnSuccess ==
    (IsChainCall /\ pc = "returned" /\ Idx("fail") # {}) =>
        \A f \in Idx("fail") :
            \E k \in DOMAIN DiagnosticTrace(ret) :
                DiagnosticTrace(ret)[k] = <<log[f].id, log[f].err>>

\* C3 amended: when an earlier candidate failed and a later one succeeded, the
\* chain returns the later one's series under the later one's source label;
\* the earlier failures are in the local list errors, in order, and the
\* returned AssetStats carries no failure entry.
C3_TraceDroppedOnSuccess ==
    (IsChainCall /\ pc = "returned" /\ Idx("fail") # {}) =>
        /\ \A i \in Idx("success") :
              /\ LabelProvider(ret.value.source) = log[i].id
              /\ \A o \in ret.value.annual_returns : OriginProvider(o) = log[i].id
        /\ Len(errors) = Cardinality(Idx("fail"))
        /\ \A f \in Idx("fail") :
              \E k \in DOMAIN errors : errors[k] = <<log[f].id, log[f].err>>
        /\ DiagnosticTrace(ret) = <<>>

\* C3 witness: a chain returned after two of its candidates had failed.
C3_Witness ==
    /\ IsChainCall
    /\ pc = "returned"
    /\ Cardinality(Idx("fail")) = 2
    /\ Len(errors) = 2

\* C4: the AssetStats a chain returns names the provider of the one adapter
\* that succeeded, all its observations were served by that provider, and that
\* adapter is not one that failed.
C4_SingleProvenance ==
    (IsChainCall /\ pc = "returned") =>
        /\ Cardinality(Idx("success")) = 1
        /\ Cardinality(ret.value.annual_returns) = 1
        /\ \A i \in Idx("success") :
              /\ LabelProvider(ret.value.source) = log[i].id
              /\ \A o \in ret.value.annual_returns : OriginProvider(o) = log[i].id
              /\ \A f \in Idx("fail") : log[f].pos # log[i].pos

\* C4 witness: a chain returned a series read from the cache after an earlier
\* candidate had failed.
C4_Witness ==
    /\ IsChainCall
    /\ pc = "returned"
    /\ Idx("fail") # {}
    /\ \E i \in Idx("lookup") : log[i].flag /\ log[i].age > 0

\* C5: load_from_cache returns nothing exactly when there is no entry or the
\* entry's age is not less than the maximum age, and the stored bytes
\* otherwise; fetch_url_cached never answers from an entry that old, and
\* raises when the download that replaces it fails.
C5_ExpiredNeverServed ==
    /\ (call.fn = "load_from_cache" /\ pc = "returned") =>
          /\ (ret.value = NoData) <=> (log[1].age < 0 \/ log[1].age >= TTL)
          /\ (ret.value # NoData) =>
                ret.value = fs.files[<<md5_12(call.url), call.suffix>>].data
    /\ (call.fn = "fetch_url_cached" /\ pc \in {"returned", "raised"}) =>
          /\ (log[1].age < 0 \/ log[1].age >= TTL) =>
                /\ ~log[1].flag
                /\ Idx("net") # {}
                /\ (\E i \in Idx("net") : ~log[i].flag) => ret.kind = "raise"

\* C5 witness: fetch_url_cached found an expired entry, the download failed,
\* and the call raised.
C5_Witness ==
    /\ call.fn = "fetch_url_cached"
    /\ pc = "raised"
    /\ log[1].age >= TTL

\* C6: a load_from_cache or fetch_url_cached call for a (URL, suffix) that was
\* put less than the maximum age ago returns the bytes of that put, makes no
\* network request and leaves the cache as it was.
C6_HitWithinTTL ==
    [][\A key \in CacheKeys :
          ( /\ calls' = calls + 1
            /\ call'.fn \in {"load_from_cache", "fetch_url_cached"}
            /\ call'.url = key[1]
            /\ call'.suffix = key[2]
            /\ key \in DOMAIN puts
            /\ now - puts[key].at < TTL )
          => ( /\ ret'.kind = "ok"
               /\ ret'.value = puts[key].data
               /\ \A i \in DOMAIN log' : log'[i].ev # "net"
               /\ fs' = fs )]_vars

\* C6 witness: the third call is a fetch_url_cached answered from an entry
\* that has aged.
C6_Witness ==
    /\ call.fn = "fetch_url_cached"
    /\ pc = "returned"
    /\ calls = 3
    /\ Len(log) = 1
    /\ log[1].flag
    /\ log[1].age > 0

\* C7 as stated: every cache validity decision answers valid exactly when the
\* entry exists and is younger than the CACHE_MAX_AGE_DAYS main has set.
C7_PerRunTTL ==
    \A i \in Idx("lookup") :
        log[i].flag <=>
            (log[i].age >= 0 /\ log[i].age < CACHE_MAX_AGE_DAYS * SecondsPerDay)

\* C8: after main has cleared the cache no entry is left, a lookup hits only
\* for a key put since the last clear, and every write succeeds, the first
\* one after a clear too, leaving the directory in place.
C8_ClearRemovesAll ==
    /\ (call.fn = "main" /\ call.clear_cache) =>
          (DOMAIN fs.files = {} /\ ~fs.exists)
    /\ \A i \in Idx("lookup") : log[i].flag => log[i].res \in DOMAIN puts
    /\ \A i \in Idx("save") : log[i].flag
    /\ (cleared = "rewritten") => fs.exists

\* C8 witness: an entry was written after the cache had been cleared.
C8_Witness ==
    /\ cleared = "rewritten"
    /\ pc = "returned"
    /\ Idx("save") # {}
    /\ DOMAIN fs.files # {}

\* C9 as stated: every network request of a call is preceded by a cache
\* lookup for the same resource that missed.
C9_CacheBeforeNetwork ==
    \A i \in Idx("net") :
        \E j \in Idx("lookup") :
            j < i /\ log[j].res = log[i].res /\ ~log[j].flag

StatsFns == ChainFns \cup {y.fn : y \in YahooOnly} \cup {"fetch_damodaran_returns"}

\* C10 as stated: every AssetStats returned ends before the current year.
C10_CompleteYearsOnly ==
    (pc = "returned" /\ ret.kind = "ok" /\ call.fn \in StatsFns) =>
        ret.value.end_year < YearOf(now)

\* The asset classes of a run, in the order main lists them.
ExpectedOrder ==
    <<"SP_500", "US_SMALL_CAP", "US_TBILLS", "US_LONG_BOND", "INTL_DEVELOPED",
      "EMERGING_MARKETS">>
    \o (IF cfg.HAS_YFINANCE
        THEN <<"REITS", "GOLD", "US_AGG_BOND", "US_CORPORATE_BOND", "TIPS">>
        ELSE <<>>)
    \o <<"INFLATION">>

SeqRange(q) == {q[k] : k \in DOMAIN q}

\* the attempted asset classes that were not reported as failed, in order
NotReported ==
    LET Kept(x) == x \notin SeqRange(run.reported) /\ x # "INFLATION"
    IN SelectSeq(run.attempted, Kept)

\* C11 as stated: within one run a resource whose download has failed is not
\* requested again.
C11_NoRepeatAfterFailure ==
    (run # NoRun) =>
        \A i \in DOMAIN run.requests, j \in DOMAIN run.requests :
            (i < j /\ ~run.requests[i].flag) =>
                run.requests[j].res # run.requests[i].res

\* C13: whichever asset classes fail, main attempts the asset classes one by
\* one in list order, each once, inflation last; all_stats holds exactly the
\* attempted classes that were not reported as failed, in list order, and
\* inflation_stats is set exactly when the inflation fetch was not reported.
C13_RunNeverAborts ==
    (run # NoRun) =>
        /\ Len(run.attempted) <= Len(ExpectedOrder)
        /\ \A k \in DOMAIN run.attempted : run.attempted[k] = ExpectedOrder[k]
        /\ (run.at \in {"output", "done"}) => run.attempted = ExpectedOrder
        /\ Len(run.all_stats) = Len(NotReported)
        /\ \A k \in DOMAIN run.all_stats : run.all_stats[k][1] = NotReported[k]
        /\ SeqRange(run.reported) \subseteq SeqRange(run.attempted)
        /\ Len(run.reported) = Cardinality(SeqRange(run.reported))
        /\ (run.inflation_stats # NoStats) <=>
              ("INFLATION" \in SeqRange(run.attempted)
               /\ "INFLATION" \notin SeqRange(run.reported))

\* C13 witness: a finished run in which the first asset class and a later one
\* failed, an asset class between them succeeded, and inflation succeeded.
C13_Witness ==
    /\ run # NoRun
    /\ run.at = "done"
    /\ Len(run.reported) >= 2
    /\ run.reported[1] = "SP_500"
    /\ Len(run.all_stats) >= 2
    /\ run.all_stats[1][1] # ExpectedOrder[Len(ExpectedOrder) - 1]
    /\ run.reported[Len(run.reported)] \notin {"SP_500", "INFLATION", run.all_stats[1][1]}
    /\ run.inflation_stats # NoStats

\* C12 as stated: every fallback chain that has started ends, in a returned
\* result or in the aggregate failure.
C12_ChainEnds ==
    (pc \in {"chain", "waiting"}) ~> (pc \in {"returned", "raised"})

\* Statistics of a series of values, written out for the properties.

\* the product of the growth multipliers 1 + r is zero or negative
ProductNotPositive(arr) ==
    \/ \E i \in DOMAIN arr : arr[i] = -Scale
    \/ Cardinality({i \in DOMAIN arr : Scale + arr[i] < 0}) % 2 = 1

SomePositiveMultiplier(arr) == \E i \in DOMAIN arr : Scale + arr[i] > 0

\* sum over the pairs i < j of (x_i - x_j)^2 = n (n - 1) * sample variance
PairSq(arr) ==
    LET Pairs == {p \in (DOMAIN arr) \X (DOMAIN arr) : p[1] < p[2]}
        RECURSIVE Sum(_)
        Sum(ps) == IF ps = {} THEN 0
                   ELSE LET p == CHOOSE q \in ps : TRUE
                        IN (arr[p[1]] - arr[p[2]]) * (arr[p[1]] - arr[p[2]])
                           + Sum(ps \ {p})
    IN Sum(Pairs)

\* the sample standard deviation exists and exceeds one unit, 5%
StdAboveFivePercent(arr) ==
    Len(arr) >= 2 /\ PairSq(arr) > Len(arr) * (Len(arr) - 1)

HasModel(profile, m) == \E i \in DOMAIN profile : profile[i].model = m

ModelsOf(profile, m) == {profile[i] : i \in {j \in DOMAIN profile : profile[j].model = m}}

Sentinel == Rat(-Scale, Scale)

\* C14 as stated: a statistic that cannot be computed for a fetched,
\* non-empty series is raised: compute_stats never returns such a series'
\* statistics with one of them undefined.
C14_StatFailureRaised ==
    (calc.op = "compute_stats" /\ calc.arr # <<>> /\ calc.result.kind = "ok") =>
        ~calc.result.value.std_dev.nan

\* C15 as stated: compute_stats raises on a series of no observations and on
\* a series of exactly one, and returns statistics only for two or more.
C15_NeedsTwoObservations ==
    (calc.op = "compute_stats") =>
        /\ (Len(calc.arr) = 0) => calc.result.kind = "raise"
        /\ (Len(calc.arr) = 1) => calc.result.kind = "raise"
        /\ (calc.result.kind = "ok") <=> (Len(calc.arr) >= 2)

\* C16: the geometric mean compute_stats returns is the sentinel -1 exactly
\* when the product of the multipliers 1 + r is not strictly positive, so for
\* every series holding a return of -1; otherwise it is greater than -1.
C16_GeometricSentinel ==
    (calc.op = "compute_stats" /\ calc.result.kind = "ok") =>
        LET g == calc.result.value.geometric_mean IN
        /\ (g = Sentinel) <=> ProductNotPositive(calc.arr)
        /\ (\E i \in DOMAIN calc.arr : calc.arr[i] = -Scale) => g = Sentinel
        /\ (~ProductNotPositive(calc.arr)) => (g.den > 0 /\ g.num > -g.den)

\* C16 witness: statistics of three returns, one of them -100%, another below
\* -100%.
C16_Witness ==
    /\ calc.op = "compute_stats"
    /\ calc.result.kind = "ok"
    /\ Len(calc.arr) = 3
    /\ \E i \in DOMAIN calc.arr : calc.arr[i] = -Scale
    /\ \E i \in DOMAIN calc.arr : calc.arr[i] < -Scale
    /\ calc.result.value.geometric_mean = Sentinel

\* C17: both formatters always print exactly one Fixed constant, whose value
\* is the geometric mean, and exactly one Normal constant, whose parameters
\* are the arithmetic mean and the sample standard deviation, whatever other
\* constants are printed.
C17_FixedAndNormalAlways ==
    (calc.op \in {"format_rust_const", "format_inflation_rust_const"}) =>
        /\ calc.result.kind = "ok"
        /\ ModelsOf(calc.result.value, "Fixed")
              = {[model |-> "Fixed", value |-> calc.stats.geometric_mean]}
        /\ ModelsOf(calc.result.value, "Normal")
              = {[model |-> "Normal", mean |-> calc.stats.arithmetic_mean,
                  std_dev |-> calc.stats.std_dev]}
        /\ Cardinality({i \in DOMAIN calc.result.value :
                           calc.result.value[i].model \in {"Fixed", "Normal"}}) = 2

\* C17 witness: a return profile with neither LogNormal nor Student's t, for
\* a series whose geometric and arithmetic means differ.
C17_Witness ==
    /\ calc.op = "format_rust_const"
    /\ calc.result.kind = "ok"
    /\ Len(calc.result.value) = 2
    /\ calc.stats.geometric_mean # calc.stats.arithmetic_mean
    /\ calc.stats.geometric_mean # Sentinel

\* C18 as stated: a return profile has a LogNormal constant exactly when some
\* multiplier 1 + r of the series is strictly positive.
C18_LogNormalIffPositive ==
    (calc.op = "format_rust_const" /\ calc.result.kind = "ok") =>
        (HasModel(calc.result.value, "LogNormal") <=> SomePositiveMultiplier(calc.arr))

C20_DegreesOfFreedom ==
    /\ (calc.op = "compute_student_t_scale") =>
          /\ (calc.df.num <= 2 * calc.df.den) <=> (calc.result.kind = "raise")
          /\ (calc.result.kind = "raise") => calc.result.error = "ValueError"
          /\ (calc.result.kind = "ok") =>
                /\ calc.result.value.times_sqrt.num > 0
                /\ calc.result.value.times_sqrt.num * calc.df.num
                      = calc.result.value.times_sqrt.den
                           * (calc.df.num - 2 * calc.df.den)
    /\ (calc.op = "format_rust_const") =>
          /\ calc.result.kind = "ok"
          /\ \A t \in ModelsOf(calc.result.value, "StudentT") :
                t.scale.times_sqrt = Rat(3, 5)

\* C20 witness: compute_student_t_scale called with df = 2 has raised.
C20_Witness ==
    /\ calc.op = "compute_student_t_scale"
    /\ calc.df = Rat(4, 2)
    /\ calc.result.kind = "raise"

\* C26 as stated: a fallback chain called with start year Y returns
\* statistics whose first year is not before Y, whichever candidate succeeded.
C26_NoYearBeforeStart ==
    (IsChainCall /\ pc = "returned" /\ ret.kind = "ok") =>
        ret.value.start_year >= call.start_year

\* events of the step's call that are successful cache writes
SavesOf(events) == {i \in DOMAIN events : events[i].ev = "save" /\ events[i].flag}

\* C29: a call writes a cache entry only after its download or API request
\* has delivered: a step whose request fails, or that is answered from the
\* cache, leaves the cache store as it was, entry bytes and timestamps
\* included; every write of a fetching call follows a delivered request of
\* the same call, and every entry's timestamp is the time of its last put.
C29_WriteOnlyAfterFetch ==
    [][(calls' = calls + 1 /\ call'.fn # "main") =>
          /\ (SavesOf(log') = {}) => fs' = fs
          /\ (\E i \in DOMAIN log' : log'[i].ev = "net" /\ ~log'[i].flag) => fs' = fs
          /\ (\E i \in DOMAIN log' : log'[i].ev = "lookup" /\ log'[i].flag) => fs' = fs
          /\ (call'.fn # "save_to_cache") =>
                \A i \in SavesOf(log') :
                   \E j \in 1..(i - 1) : log'[j].ev = "net" /\ log'[j].flag
          /\ \A key \in CacheKeys :
                (get_cache_path(key[1], key[2]) \in DOMAIN fs'.files) =>
                   /\ key \in DOMAIN puts'
                   /\ fs'.files[get_cache_path(key[1], key[2])].mtime = puts'[key].at
                   /\ fs'.files[get_cache_path(key[1], key[2])].data = puts'[key].data
      ]_vars

\* C29 witness: a download has failed for a key whose expired entry is still
\* in the store with the bytes and the time of its put.
C29_Witness ==
    /\ call.fn = "fetch_url_cached"
    /\ pc = "raised"
    /\ \E i \in DOMAIN log : log[i].ev = "net" /\ ~log[i].flag
    /\ <<call.url, call.suffix>> \in DOMAIN puts
    /\ get_cache_path(call.url, call.suffix) \in DOMAIN fs.files
    /\ now - fs.files[get_cache_path(call.url, call.suffix)].mtime >= TTL
    /\ fs.files[get_cache_path(call.url, call.suffix)].data
          = puts[<<call.url, call.suffix>>].data

\* whether a fetcher of the run has entered the try block of a candidate
WasInvoked(prefix, id) ==
    \E i \in DOMAIN run.invoked : run.invoked[i] = [prefix |-> prefix, id |-> id]

\* C25 as stated: once main has run the T-bill fetcher (the inflation
\* fetcher), the FRED adapter was tried for it exactly when fredapi is
\* installed and a credential was supplied, by --fred-api-key or by the
\* environment.
C25_FredWhenKeySupplied ==
    (run.at # "none") =>
        \A prefix \in {"US_TBILLS", "INFLATION"} :
            (prefix \in SeqRange(run.attempted)) =>
                (WasInvoked(prefix, "FRED") <=>
                    (cfg.HAS_FRED /\ (run.args_fred_api_key \/ cfg.FRED_API_KEY)))

\* C27 as stated: in the csv output every data row has as many
\* comma-separated fields as the header, nine, and there is one row per
\* collected asset class plus one for inflation if it was fetched.
C27_CsvRowsMatchHeader ==
    (run.at = "done" /\ run.output.format = "csv") =>
        /\ Len(run.output.header) = 9
        /\ \A i \in DOMAIN run.output.rows :
              Len(run.output.rows[i]) = Len(run.output.header)
        /\ Len(run.output.rows)
              = Len(run.all_stats) + (IF run.inflation_stats # NoStats THEN 1 ELSE 0)

\* the source labels of the records of a json document
JsonLabels(doc) ==
    {doc.return_profiles[i][2].source : i \in DOMAIN doc.return_profiles}
        \cup {doc.inflation[i].source : i \in DOMAIN doc.inflation}

\* C28 as stated, read by provider: for every record of the json document,
\* the provenance list has an entry naming the provider of the record's
\* source label.
C28_ProvenanceCoversRun ==
    (run.at = "done" /\ run.output.format = "json") =>
        \A label \in JsonLabels(run.output) :
            \E s \in run.output.sources : LabelProvider(s) = LabelProvider(label)

\* the rows of an array, one after the other
RECURSIVE Flatten(_)
Flatten(rows) == IF rows = <<>> THEN <<>> ELSE Head(rows) \o Flatten(Tail(rows))

\* C24: a raw series of n >= 1 values is printed in ceil(n/8) rows, each of 8
\* values except the last, which holds 1 to 8, and the rows in order are the
\* series.
C24_RowsOfEight ==
    (calc.op \in {"format_rust_historical_returns", "format_inflation_rust_array"}
       /\ Len(calc.annual_returns) >= 1) =>
        LET rows == calc.result.rows
            n    == Len(calc.annual_returns)
        IN /\ Len(rows) * 8 >= n
           /\ (Len(rows) - 1) * 8 < n
           /\ \A k \in 1..(Len(rows) - 1) : Len(rows[k]) = 8
           /\ Len(rows[Len(rows)]) \in 1..8
           /\ Flatten(rows) = calc.annual_returns

\* C24 witness: seventeen returns printed in three rows, the last of one value.
C24_Witness ==
    /\ calc.op = "format_rust_historical_returns"
    /\ Len(calc.annual_returns) = 17
    /\ Len(calc.result.rows) = 3
    /\ Len(calc.result.rows[3]) = 1

\* C21: a statistic of one AssetStats is printed as the same text, at the
\* same precision, in the structured document, in the table and in the
\* constant blocks.
C21_SameTextInEveryFormat ==
    calc.op = "print_statistic" =>
        /\ calc.json = calc.csv
        /\ calc.csv = calc.rust
        /\ calc.rust = calc.rust_comment

\* the observations with 1 + r <= 0
ExcludedYears(arr) == {i \in DOMAIN arr : Scale + arr[i] <= 0}

\* The observations a LogNormal computation was taken over, and the
\* diagnostics it gave.  analyze_data fits the logarithms of the positive
\* multipliers and prints its warning; format_rust_const takes the
\* arithmetic mean and the standard deviation of stats, computed from all of
\* annual_returns, and returns the constants only.
LogNormalFitted(c) ==
    \/ c.op = "analyze_data" /\ c.result.kind = "ok" /\ c.result.lognormal = "fitted"
    \/ c.op = "format_rust_const" /\ c.result.kind = "ok"
         /\ HasModel(c.result.value, "LogNormal")

LogNormalObservations(c) ==
    IF c.op = "analyze_data" THEN c.result.log_values ELSE c.arr

LogNormalDiagnostics(c) ==
    IF c.op = "analyze_data" THEN c.result.printed ELSE <<>>

\* C23: wherever LogNormal parameters are computed from a series, the fit is
\* taken over exactly the observations with 1 + r > 0, and a diagnostic
\* carrying the number of observations with 1 + r <= 0 is given exactly when
\* that number is above zero.
C23_LogNormalOverPositiveSubset ==
    LET done == \/ calc.op = "analyze_data" /\ calc.result.kind = "ok"
                \/ calc.op = "format_rust_const" /\ calc.result.kind = "ok"
    IN /\ LogNormalFitted(calc) =>
            LogNormalObservations(calc) = positive_multipliers(calc.arr)
       /\ done =>
            /\ (LogNormalDiagnostics(calc) # <<>>) <=> (ExcludedYears(calc.arr) # {})
            /\ \A i \in DOMAIN LogNormalDiagnostics(calc) :
                 LogNormalDiagnostics(calc)[i].negative_count
                   = Cardinality(ExcludedYears(calc.arr))

\* The same statement for analyze_data alone.
AnalyzeDataFitsPositiveSubset ==
    calc.op = "analyze_data" => C23_LogNormalOverPositiveSubset

\* the payloads of the puts that have begun on a path
PutsOn(path) ==
    {procs[w].data : w \in {u \in Writers : procs[u].pc # "idle" /\ procs[u].path = path}}

\* C22: when two runs have both finished storing an entry, each path they
\* wrote holds the complete payload of one of the writers of that path, and
\* no other path has been touched.
C22_LastWriterWins ==
    (\A w \in Writers : procs[w].pc = "done") =>
        /\ \A w \in Writers : fs.files[procs[w].path].data \in PutsOn(procs[w].path)
        /\ DOMAIN fs.files = {procs[w].path : w \in Writers}

\* C30: a load that runs while entries are being stored returns nothing or
\* the complete payload of a put that has begun on its path.
C30_NoPartialRead ==
    \A r \in Readers :
        (procs[r].pc = "done" /\ procs[r].result.hit) =>
            procs[r].result.data \in PutsOn(procs[r].path)

====
